---- MODULE Spec2Model ----
(***************************************************************************)
(* Connection supervision and status synchronisation of the PMAC Filter    *)
(* Control wrapper (src/src/pmacfiltercontrol/pmacFilterControlWrapper.py).*)
(*                                                                         *)
(* The asyncio tasks of Wrapper.run_forever are modelled as processes that *)
(* take one step from one await point to the next: the status poller       *)
(* (_query_status), the command-stream monitor (monitor_command_stream)    *)
(* and the record callbacks (open_file, close_file, _set_timeout, ...).    *)
(* The device and the ZeroMQ link are the environment.                     *)
(*                                                                         *)
(* The frame recorder (_open_file, _write_to_hdf5, _close_file) is that of *)
(* src/pmacFilterControlWrapper.py, checked under RecorderSpec.            *)
(*                                                                         *)
(* The autosave file is a text, written and read back character by         *)
(* character (AutosaveSpec); mode, filter set, attenuation and the initial  *)
(* configuration are checked under ConfigSpec.                             *)
(***************************************************************************)
EXTENDS Integers, Sequences, FiniteSets, TLC

\* ------------------------------------------------------------------ bounds
\* Inbound messages the command link holds before the monitor reads them.
MaxQueue == 2
\* Status requests on their way to the device.
MaxReqs == 2

\* Inbound messages the event link holds before the monitor reads them.
MaxEvents == 2

\* Callbacks and coroutines of one kind that are dispatched and have not run.
MaxPending == 1

\* ------------------------------------------------------- program constants
\* initial_value of TIMEOUT_RBV
InitialTimeout == 3
\* negative state codes are published as 16 + state
StateWrap == 16
\* initial closed position of the fast shutter
ShutterClosedDefault == 500
\* initial open position of the fast shutter
ShutterOpenDefault == 0
\* initial in position of a filter
FilterInDefault == 100
\* initial extreme high pixel-count threshold
ExtremeHighDefault == 100
\* initial value of the four other pixel-count thresholds
LowerLowDefault == 2
\* the attenuation set on entering manual mode and at the initial configuration
MaxAttenuation == 15
\* keys of the autosave dictionary (the shutter keys are "OPEN" and "CLOSED")
FilterInKey == "FILTER_SET:1:IN:1"
ExtremeHighKey == "HIGH:THRESHOLD:EXTREME"
LowerLowKey == "LOW:THRESHOLD:LOWER"
FilterSetKey == "FILTER_SET"
HistKey == "High1"

\* ------------------------------------------------------------ input domains
\* MODE: MANUAL and CONTINUOUS
Modes == {0, 1}
\* FILTER_SET: the first two filter sets
FilterSets == {0, 1}
\* values written to ATTENUATION, FILTER_SET:1:IN:1, HIGH:THRESHOLD:EXTREME, HIST:HIGH1
ManualAttenuations == {3}
PosValues == {-5}
ThresholdValues == {7, 100}
LowerLowValues == {2, 7}
HistValues == {12}
\* state codes the device reports (negative: error sub-range)
StateCodes == {-1, 0, 2}
\* last_received_frame values the device reports
FrameCounts == {0, 1, 2}
\* time_since_last_message values the device reports (seconds)
Elapsed == {2, 4}
\* values an operator writes to TIMEOUT
Timeouts == {3, 5}
\* values an operator writes to a boolean/trigger record
Triggers == {0, 1}
\* positions an operator writes to SHUTTER:OPEN / SHUTTER:CLOSED
ShutterPositions == {250}

\* kinds of payload the command link delivers:
\*   "status"      a JSON object with a "status" key
\*   "other"       a JSON object without a "status" key
\*   "unparseable" bytes json.loads rejects
MsgKinds == {"status", "other", "unparseable"}

\* MODE: SINGLESHOT beside MANUAL
SingleshotModes == {0, 2}
\* state codes of a device that runs single shots: IDLE, SINGLESHOT_WAITING,
\* SINGLESHOT_COMPLETE
SingleshotStateCodes == {0, 3, 4}

\* the status dictionaries of the device
StatusMsgs == [state : StateCodes, version : {1}, process_duration : {1}, process_period : {1}, last_received_frame : FrameCounts, last_processed_frame : {1}, time_since_last_message : Elapsed, current_attenuation : {1}]

\* the status dictionaries of a device that runs single shots
SingleshotStatusMsgs == [state : SingleshotStateCodes, version : {1}, process_duration : {1}, process_period : {1}, last_received_frame : {1}, last_processed_frame : {1}, time_since_last_message : {2}, current_attenuation : {1}]

\* messages the wrapper hands to the command link
StatusReq == [command |-> "status"]
ResetCmd == [command |-> "reset"]
SingleshotCmd == [command |-> "singleshot"]
Configure(param, value) == [command |-> "configure", param |-> param, value |-> value]

VARIABLES
    connected,              \* Wrapper.connected
    status_recv,            \* Wrapper.status_recv
    zmq_running,            \* Wrapper.zmq_stream.running
    cmdQ,                   \* inbound queue of the command link (payload kinds)
    reqs,                   \* status requests sent and not yet seen by the device
    sent,                   \* messages handed to _send_message by the last step
    pollPc,                 \* await point of _query_status
    cmdPc,                  \* await point of monitor_command_stream
    state,                  \* STATE record
    version,                \* VERSION record
    process_duration,       \* PROCESS:DURATION record
    process_period,         \* PROCESS:PERIOD record
    last_frame_received,    \* FRAME:RECEIVED record
    last_frame_processed,   \* FRAME:PROCESSED record
    time_since_last_frame,  \* FRAME:LAST_TIME record
    current_attenuation,    \* ATTENUATION_RBV record
    timeout_rbv,            \* TIMEOUT_RBV record
    file_open,              \* FILE:OPEN record
    file_close,             \* FILE:CLOSE record
    h5f_file_open,          \* Wrapper.h5f.file_open
    autosave_dict,          \* Wrapper._autosave_dict: <<key, value, is a Python float>> in insertion order
    autosave_file,          \* text of the autosave file, None before the first write
    h5f,                    \* src/pmacFilterControlWrapper.py: Wrapper.h5f
    file_path,              \* src/pmacFilterControlWrapper.py: FILE:PATH record
    file_name,              \* src/pmacFilterControlWrapper.py: FILE:NAME record
    file_full_name,         \* src/pmacFilterControlWrapper.py: FILE:FULL_NAME record
    monitorPc,              \* src/pmacFilterControlWrapper.py: state of the two monitor_responses tasks
    raised,                 \* exception the last direct call of _close_file left to its caller
    open_returned,          \* what the last call of _open_file in monitor_responses returned
    event_running,          \* Wrapper.event_stream.running
    evQ,                    \* inbound queue of the event link
    evPc,                   \* await point of monitor_event_stream
    frames_written,         \* frames handed to h5f._write_to_file by the last step of monitor_event_stream
    write_error,            \* whether that call raised a RuntimeError, which the step reported
    mode,                   \* MODE record
    mode_rbv,               \* MODE_RBV record
    attenuation,            \* ATTENUATION record
    attenuation_update,     \* values of ATTENUATION whose on_update is dispatched and has not run
    filter_set_rbv,         \* FILTER_SET_RBV record
    pixel_count_thresholds, \* Wrapper.pixel_count_thresholds
    initPc,                 \* await point of _send_initial_config
    histPc,                 \* the _set_hist coroutines that wait in caput, with their arguments
    filter_in               \* FILTER_SET:1:IN:1 record

linkVars == <<zmq_running, cmdQ, reqs>>
flagVars == <<connected, status_recv>>
statusPVs == <<state, version, process_duration, process_period, last_frame_received, last_frame_processed, time_since_last_frame, current_attenuation>>
fileVars == <<file_open, file_close, h5f_file_open>>
autosaveVars == <<autosave_dict, autosave_file>>
eventVars == <<event_running, evQ, evPc, frames_written, write_error>>
recorderVars == <<h5f, file_path, file_name, file_full_name, monitorPc, raised, open_returned>>
configVars == <<mode, mode_rbv, attenuation, attenuation_update, filter_set_rbv, pixel_count_thresholds, initPc, histPc, filter_in>>
vars == <<connected, status_recv, zmq_running, cmdQ, reqs, sent, pollPc, cmdPc, state, version, process_duration, process_period, last_frame_received, last_frame_processed, time_since_last_frame, current_attenuation, timeout_rbv, file_open, file_close, h5f_file_open, autosave_dict, autosave_file, h5f, file_path, file_name, file_full_name, monitorPc, raised, open_returned, event_running, evQ, evPc, frames_written, write_error, mode, mode_rbv, attenuation, attenuation_update, filter_set_rbv, pixel_count_thresholds, initPc, histPc, filter_in>>

TypeOK ==
    /\ connected \in BOOLEAN
    /\ status_recv \in BOOLEAN
    /\ zmq_running \in BOOLEAN
    /\ cmdQ \in Seq(MsgKinds) /\ Len(cmdQ) <= MaxQueue
    /\ reqs \in 0..MaxReqs
    /\ pollPc \in {"start", "link_sleep", "poll_sleep", "retry_sleep"}
    /\ cmdPc \in {"start", "link_sleep", "get_response", "raised"}
    /\ h5f_file_open \in BOOLEAN
    /\ timeout_rbv \in Timeouts \cup {InitialTimeout}

\* ------------------------------ frame recorder: src/pmacFilterControlWrapper.py
\* size the two datasets are created with
DatasetSize == 128

\* frame numbers, adjustments and attenuations of the frame messages
FrameNumbers == {0, 128, 129}
Adjustments == {-1, 1}
Attenuations == {3, 4}
\* the frame messages: two different pairs of values for each frame number
FrameMsgs == {data \in [frame_number : FrameNumbers, adjustment : Adjustments, attenuation : Attenuations] : <<data.adjustment, data.attenuation>> \in {<<-1, 3>>, <<1, 4>>}}
\* the status dictionaries the recorder is run with
RecorderStatusMsgs == {status \in StatusMsgs : status.state = 2 /\ status.last_received_frame = 2}

\* initial values of FILE:PATH and FILE:NAME, and what an operator writes
InitialFilePath == "ioc/test"
InitialFileName == "tmp.h5"
FilePaths == {""}
FileNames == {"b.h5"}

\* what the file system answers to _check_path and h5py.File:
\*   isdir          FILE:PATH is a directory
\*   parent_isdir   the parent of FILE:PATH is a directory
\*   cwd_is_parent  the working directory is that parent, so that
\*                  os.makedirs(dir_name) makes FILE:PATH
\*   isfile         FILE:FULL_NAME is a file
\* A directory has a parent directory, a file is in a directory, and the working
\* directory is a directory.
FsViews == {fs \in [isdir : BOOLEAN, parent_isdir : BOOLEAN, cwd_is_parent : BOOLEAN, isfile : BOOLEAN] : (fs.isdir => fs.parent_isdir) /\ (fs.isfile => fs.isdir) /\ (fs.cwd_is_parent => fs.parent_isdir)}

\* Wrapper.h5f is None
None == [filename |-> <<>>, adjustment |-> <<>>, attenuation |-> <<>>]
\* h5py.File(name, "w"): a new, empty file; a dataset that does not exist is <<>>
File(name) == [filename |-> name, adjustment |-> <<>>, attenuation |-> <<>>]

\* Wrapper._combine_file_path_and_name: "/".join([path, name]), the name with
\* the time of day appended when the file exists
CombineFilePathAndName(path, name, exists) == IF exists THEN <<path, name, "time">> ELSE <<path, name>>

RecorderInit ==
    /\ h5f = None
    /\ file_path = InitialFilePath
    /\ file_name = InitialFileName
    /\ file_full_name = CombineFilePathAndName(InitialFilePath, InitialFileName, FALSE)
    /\ monitorPc = [zmq_stream |-> "get_response", event_stream |-> "get_response"]
    /\ raised = "none"
    /\ open_returned = "none"

\* ---------------------------------------------------------------- event link
\* frame numbers of the frame messages on the event link
EventFrames == {0, 1}
\* payloads the event link delivers:
\*   "frame"       a JSON object with a "frame_number" key
\*   "other"       a JSON object without a "frame_number" key
\*   "unparseable" bytes json.loads rejects
EventMsgs == [kind : {"frame"}, frame_number : EventFrames] \cup [kind : {"other", "unparseable"}, frame_number : {0}]

EventInit ==
    /\ event_running = FALSE
    /\ evQ = <<>>
    /\ evPc = "start"
    /\ frames_written = <<>>
    /\ write_error = FALSE

\* Wrapper.__init__ with no autosave file: the records of the configuration
\* and the tasks of run_forever before their first step
\* Wrapper.pixel_count_thresholds as __init__ makes it
PixelCountDefaults == [high1 |-> LowerLowDefault, high2 |-> LowerLowDefault, high3 |-> ExtremeHighDefault, low1 |-> LowerLowDefault, low2 |-> LowerLowDefault]

ConfigInit ==
    /\ mode = 0
    /\ mode_rbv = 0
    /\ attenuation = 0
    /\ attenuation_update = <<>>
    /\ filter_set_rbv = 0
    /\ pixel_count_thresholds = PixelCountDefaults
    /\ initPc = "wait_connected"
    /\ histPc = <<>>
    /\ filter_in = FilterInDefault

\* _generate_filter_pos_records, _generate_shutter_records and
\* _generate_pixel_threshold_records with no autosave file: the defaults
DefaultAutosaveDict == << <<FilterInKey, FilterInDefault, TRUE>>, <<"OPEN", ShutterOpenDefault, TRUE>>, <<"CLOSED", ShutterClosedDefault, TRUE>>, <<ExtremeHighKey, ExtremeHighDefault, TRUE>>, <<LowerLowKey, LowerLowDefault, TRUE>> >>

Init ==
    /\ connected = FALSE
    /\ status_recv = TRUE
    /\ zmq_running = FALSE
    /\ cmdQ = <<>>
    /\ reqs = 0
    /\ sent = <<>>
    /\ pollPc = "start"
    /\ cmdPc = "start"
    /\ state = 0
    /\ version = 0
    /\ process_duration = 0
    /\ process_period = 0
    /\ last_frame_received = 0
    /\ last_frame_processed = 0
    /\ time_since_last_frame = 0
    /\ current_attenuation = 0
    /\ timeout_rbv = InitialTimeout
    /\ file_open = 0
    /\ file_close = 0
    /\ h5f_file_open = FALSE
    /\ autosave_dict = DefaultAutosaveDict
    /\ autosave_file = <<>>
    /\ RecorderInit
    /\ EventInit
    /\ ConfigInit

\* ------------------------------------------------------------ command link
\* How many of the messages are status requests.
StatusCount(msgs) == Cardinality({i \in 1..Len(msgs) : msgs[i] = StatusReq})

\* ZeroMQAdapter.send_message: the messages go out when the link is running and
\* are dropped (logged) when it is not.  Only status requests are followed on
\* their way to the device.
send_message(msgs) == IF zmq_running THEN reqs + StatusCount(msgs) ELSE reqs

\* Wrapper._send_message: hand the messages of one step to the command link.
SendMessage(msgs) ==
    /\ send_message(msgs) <= MaxReqs
    /\ sent' = msgs
    /\ reqs' = send_message(msgs)

\* Wrapper._req_status
ReqStatus == SendMessage(<<StatusReq>>)

\* ZeroMQAdapter.run_forever: the link (re)connects.
ZmqConnect ==
    /\ ~zmq_running
    /\ zmq_running' = TRUE
    /\ sent' = <<>>
    /\ UNCHANGED <<cmdQ, reqs, flagVars, pollPc, cmdPc, statusPVs, timeout_rbv, fileVars, autosaveVars, recorderVars, eventVars, configVars>>

\* ZeroMQAdapter.run_forever: a transport fault marks the link not running.
ZmqFault ==
    /\ zmq_running
    /\ zmq_running' = FALSE
    /\ sent' = <<>>
    /\ UNCHANGED <<cmdQ, reqs, flagVars, pollPc, cmdPc, statusPVs, timeout_rbv, fileVars, autosaveVars, recorderVars, eventVars, configVars>>

\* The device answers a status request; the reply reaches the inbound queue.
DeviceStatusReply ==
    /\ reqs > 0
    /\ zmq_running
    /\ Len(cmdQ) < MaxQueue
    /\ reqs' = reqs - 1
    /\ cmdQ' = Append(cmdQ, "status")
    /\ sent' = <<>>
    /\ UNCHANGED <<zmq_running, flagVars, pollPc, cmdPc, statusPVs, timeout_rbv, fileVars, autosaveVars, recorderVars, eventVars, configVars>>

\* A status request, or its reply, is lost.
DeviceNoReply ==
    /\ reqs > 0
    /\ reqs' = reqs - 1
    /\ sent' = <<>>
    /\ UNCHANGED <<zmq_running, cmdQ, flagVars, pollPc, cmdPc, statusPVs, timeout_rbv, fileVars, autosaveVars, recorderVars, eventVars, configVars>>

\* Another payload arrives on the command link: an object without a status
\* key (the answer to a command) or bytes that are not JSON.
DeviceOther(kind) ==
    /\ zmq_running
    /\ Len(cmdQ) < MaxQueue
    /\ cmdQ' = Append(cmdQ, kind)
    /\ sent' = <<>>
    /\ UNCHANGED <<zmq_running, reqs, flagVars, pollPc, cmdPc, statusPVs, timeout_rbv, fileVars, autosaveVars, recorderVars, eventVars, configVars>>

\* ------------------------------------------------------------ status poller
\* _query_status is at the head of its while True loop after any of these sleeps.
AtLoopHead == pollPc \in {"start", "link_sleep", "poll_sleep"}

\* QueryStatusLinkDown that sends a status request all the same
QueryStatusLinkDownSends ==
    /\ AtLoopHead
    /\ ~zmq_running
    /\ pollPc' = "link_sleep"
    /\ ReqStatus
    /\ UNCHANGED <<zmq_running, cmdQ, flagVars, cmdPc, statusPVs, timeout_rbv, fileVars, autosaveVars, recorderVars, eventVars, configVars>>

\* QueryStatusLinkDown that takes the outage for a missed reply
QueryStatusLinkDownDisconnects ==
    /\ AtLoopHead
    /\ ~zmq_running
    /\ pollPc' = "link_sleep"
    /\ connected' = FALSE
    /\ SendMessage(<<>>)
    /\ UNCHANGED <<zmq_running, cmdQ, status_recv, cmdPc, statusPVs, timeout_rbv, fileVars, autosaveVars, recorderVars, eventVars, configVars>>

\* if not self.zmq_stream.running: await asyncio.sleep(1)
QueryStatusLinkDown ==
    /\ AtLoopHead
    /\ ~zmq_running
    /\ pollPc' = "link_sleep"
    /\ SendMessage(<<>>)
    /\ UNCHANGED <<zmq_running, cmdQ, flagVars, cmdPc, statusPVs, timeout_rbv, fileVars, autosaveVars, recorderVars, eventVars, configVars>>

\* QueryStatusRequest without the test of status_recv
QueryStatusRequestUnguarded ==
    /\ AtLoopHead
    /\ zmq_running
    /\ status_recv' = FALSE
    /\ ReqStatus
    /\ pollPc' = "poll_sleep"
    /\ UNCHANGED <<zmq_running, cmdQ, connected, cmdPc, statusPVs, timeout_rbv, fileVars, autosaveVars, recorderVars, eventVars, configVars>>

\* if self.status_recv: self.status_recv = False; self._req_status()
QueryStatusRequest ==
    /\ AtLoopHead
    /\ zmq_running
    /\ status_recv
    /\ status_recv' = FALSE
    /\ ReqStatus
    /\ pollPc' = "poll_sleep"
    /\ UNCHANGED <<zmq_running, cmdQ, connected, cmdPc, statusPVs, timeout_rbv, fileVars, autosaveVars, recorderVars, eventVars, configVars>>

\* QueryStatusNoResponse without the write of self.connected
QueryStatusNoResponseStaysConnected ==
    /\ AtLoopHead
    /\ zmq_running
    /\ ~status_recv
    /\ pollPc' = "retry_sleep"
    /\ SendMessage(<<>>)
    /\ UNCHANGED <<zmq_running, cmdQ, flagVars, cmdPc, statusPVs, timeout_rbv, fileVars, autosaveVars, recorderVars, eventVars, configVars>>

\* else: self.connected = False; while not self.status_recv: await asyncio.sleep(1)
QueryStatusNoResponse ==
    /\ AtLoopHead
    /\ zmq_running
    /\ ~status_recv
    /\ connected' = FALSE
    /\ pollPc' = "retry_sleep"
    /\ SendMessage(<<>>)
    /\ UNCHANGED <<zmq_running, cmdQ, status_recv, cmdPc, statusPVs, timeout_rbv, fileVars, autosaveVars, recorderVars, eventVars, configVars>>

\* QueryStatusRetry that only sleeps, as in "while not self.status_recv: await asyncio.sleep(1)"
QueryStatusRetryNoResend ==
    /\ pollPc = "retry_sleep"
    /\ SendMessage(<<>>)
    /\ pollPc' = IF status_recv THEN "poll_sleep" ELSE "retry_sleep"
    /\ UNCHANGED <<zmq_running, cmdQ, flagVars, cmdPc, statusPVs, timeout_rbv, fileVars, autosaveVars, recorderVars, eventVars, configVars>>

\* after the sleep of the inner loop: self._req_status(), then the loop test
QueryStatusRetry ==
    /\ pollPc = "retry_sleep"
    /\ ReqStatus
    /\ pollPc' = IF status_recv THEN "poll_sleep" ELSE "retry_sleep"
    /\ UNCHANGED <<zmq_running, cmdQ, flagVars, cmdPc, statusPVs, timeout_rbv, fileVars, autosaveVars, recorderVars, eventVars, configVars>>

\* Wrapper._query_status
QueryStatus ==
    \/ QueryStatusLinkDown
    \/ QueryStatusRequest
    \/ QueryStatusNoResponse
    \/ QueryStatusRetry

\* ------------------------------------------------------------ output file
\* HDFAdapter._open_file: the file is open afterwards.
HdfOpenFile(is_open) == TRUE

\* HDFAdapter._close_file: the file is closed afterwards, whether or not it
\* was open.
HdfCloseFile(is_open) == FALSE

\* _if_connected without the test of connected
IfConnectedAlways(conn, func, skip) == func

\* _if_connected: run func when connected, otherwise only report.
IfConnected(conn, func, skip) == IF ~conn THEN skip ELSE func

\* body of Wrapper.open_file
OpenFileBody(v) ==
    /\ h5f_file_open' = IF v = 1 THEN HdfOpenFile(h5f_file_open) ELSE h5f_file_open
    /\ file_close' = IF file_close # 0 THEN 0 ELSE file_close

\* body of Wrapper.close_file
CloseFileBody(v) ==
    /\ h5f_file_open' = IF v = 1 THEN HdfCloseFile(h5f_file_open) ELSE h5f_file_open
    /\ file_open' = IF file_open # 0 THEN 0 ELSE file_open

\* FILE:OPEN is written: the record takes the value and open_file runs.
OpenFile ==
    /\ \E v \in Triggers :
        /\ file_open' = v
        /\ IfConnected(connected, OpenFileBody(v), UNCHANGED <<h5f_file_open, file_close>>)
    /\ SendMessage(<<>>)
    /\ UNCHANGED <<zmq_running, cmdQ, flagVars, pollPc, cmdPc, statusPVs, timeout_rbv, autosaveVars, recorderVars, eventVars, configVars>>

\* FILE:CLOSE is written: the record takes the value and close_file runs.
CloseFile ==
    /\ \E v \in Triggers :
        /\ file_close' = v
        /\ IfConnected(connected, CloseFileBody(v), UNCHANGED <<h5f_file_open, file_open>>)
    /\ SendMessage(<<>>)
    /\ UNCHANGED <<zmq_running, cmdQ, flagVars, pollPc, cmdPc, statusPVs, timeout_rbv, autosaveVars, recorderVars, eventVars, configVars>>

\* ------------------------------------------------------------ status handler
\* state < 0 is published as 16 + state
PublishedStateNoWrap(code) == code
PublishedState(code) == IF code < 0 THEN StateWrap + code ELSE code

\* TimedOut without the test of the frames received
TimedOutWhateverFrames(status) == status.time_since_last_message > timeout_rbv

\* the test that closes the output file
TimedOut(status) == status.time_since_last_message > timeout_rbv /\ status.last_received_frame > 1

\* HandleStatus that stops after the first four fields
HandleStatusHalf(status, conn) ==
    /\ state' = PublishedState(status.state)
    /\ version' = status.version
    /\ process_duration' = status.process_duration
    /\ process_period' = status.process_period
    /\ UNCHANGED <<last_frame_received, last_frame_processed, time_since_last_frame, current_attenuation, h5f_file_open, file_open>>

\* Wrapper._handle_status, called while self.connected is conn
HandleStatus(status, conn) ==
    /\ state' = PublishedState(status.state)
    /\ version' = status.version
    /\ process_duration' = status.process_duration
    /\ process_period' = status.process_period
    /\ last_frame_received' = status.last_received_frame
    /\ last_frame_processed' = status.last_processed_frame
    /\ time_since_last_frame' = status.time_since_last_message
    /\ IF TimedOut(status)
       THEN IfConnected(conn, CloseFileBody(1), UNCHANGED <<h5f_file_open, file_open>>)
       ELSE UNCHANGED <<h5f_file_open, file_open>>
    /\ current_attenuation' = status.current_attenuation

\* ---------------------------------------------------- command-stream monitor
\* where monitor_command_stream suspends next, from the head of its loop
NextCmdPc == IF zmq_running THEN "get_response" ELSE "link_sleep"

\* the task starts, or wakes from the sleep of its reconnect wait
MonitorCommandLoop ==
    /\ cmdPc \in {"start", "link_sleep"}
    /\ cmdPc' = NextCmdPc
    /\ sent' = <<>>
    /\ UNCHANGED <<linkVars, flagVars, pollPc, statusPVs, timeout_rbv, fileVars, autosaveVars, recorderVars, eventVars, configVars>>

\* MonitorCommandStatus without the write of self.connected
MonitorCommandStatusNoConnect ==
    /\ cmdPc = "get_response"
    /\ cmdQ # <<>>
    /\ Head(cmdQ) = "status"
    /\ cmdQ' = Tail(cmdQ)
    /\ \E status \in StatusMsgs : HandleStatus(status, TRUE)
    /\ status_recv' = TRUE
    /\ cmdPc' = NextCmdPc
    /\ sent' = <<>>
    /\ UNCHANGED <<zmq_running, reqs, connected, pollPc, timeout_rbv, file_close, autosaveVars, recorderVars, eventVars, configVars>>

\* MonitorCommandStatus that calls the handler before it writes self.connected
MonitorCommandStatusHandlesFirst ==
    /\ cmdPc = "get_response"
    /\ cmdQ # <<>>
    /\ Head(cmdQ) = "status"
    /\ cmdQ' = Tail(cmdQ)
    /\ \E status \in StatusMsgs : HandleStatus(status, connected)
    /\ connected' = TRUE
    /\ status_recv' = TRUE
    /\ cmdPc' = NextCmdPc
    /\ sent' = <<>>
    /\ UNCHANGED <<zmq_running, reqs, pollPc, timeout_rbv, file_close, autosaveVars, recorderVars, eventVars, configVars>>

\* a payload with a status key
MonitorCommandStatusFrom(msgs) ==
    /\ cmdPc = "get_response"
    /\ cmdQ # <<>>
    /\ Head(cmdQ) = "status"
    /\ cmdQ' = Tail(cmdQ)
    /\ connected' = TRUE
    /\ \E status \in msgs : HandleStatus(status, TRUE)
    /\ status_recv' = TRUE
    /\ cmdPc' = NextCmdPc
    /\ sent' = <<>>
    /\ UNCHANGED <<zmq_running, reqs, pollPc, timeout_rbv, file_close, autosaveVars, recorderVars, eventVars, configVars>>

MonitorCommandStatus == MonitorCommandStatusFrom(StatusMsgs)

\* MonitorCommandOther that takes any JSON object as a sign of life
MonitorCommandOtherConnects ==
    /\ cmdPc = "get_response"
    /\ cmdQ # <<>>
    /\ Head(cmdQ) = "other"
    /\ cmdQ' = Tail(cmdQ)
    /\ connected' = TRUE
    /\ cmdPc' = NextCmdPc
    /\ sent' = <<>>
    /\ UNCHANGED <<zmq_running, reqs, status_recv, pollPc, statusPVs, timeout_rbv, fileVars, autosaveVars, recorderVars, eventVars, configVars>>

\* MonitorCommandOther that takes any JSON object as the reply
MonitorCommandOtherClearsFlag ==
    /\ cmdPc = "get_response"
    /\ cmdQ # <<>>
    /\ Head(cmdQ) = "other"
    /\ cmdQ' = Tail(cmdQ)
    /\ status_recv' = TRUE
    /\ cmdPc' = NextCmdPc
    /\ sent' = <<>>
    /\ UNCHANGED <<zmq_running, reqs, connected, pollPc, statusPVs, timeout_rbv, fileVars, autosaveVars, recorderVars, eventVars, configVars>>

\* a JSON object without a status key
MonitorCommandOther ==
    /\ cmdPc = "get_response"
    /\ cmdQ # <<>>
    /\ Head(cmdQ) = "other"
    /\ cmdQ' = Tail(cmdQ)
    /\ cmdPc' = NextCmdPc
    /\ sent' = <<>>
    /\ UNCHANGED <<zmq_running, reqs, flagVars, pollPc, statusPVs, timeout_rbv, fileVars, autosaveVars, recorderVars, eventVars, configVars>>

\* json.loads raises on the payload: the exception leaves the coroutine
MonitorCommandUnparseable ==
    /\ cmdPc = "get_response"
    /\ cmdQ # <<>>
    /\ Head(cmdQ) = "unparseable"
    /\ cmdQ' = Tail(cmdQ)
    /\ cmdPc' = "raised"
    /\ sent' = <<>>
    /\ UNCHANGED <<zmq_running, reqs, flagVars, pollPc, statusPVs, timeout_rbv, fileVars, autosaveVars, recorderVars, eventVars, configVars>>

\* get_response returns None when the link is torn down
MonitorCommandNone ==
    /\ cmdPc = "get_response"
    /\ cmdQ = <<>>
    /\ ~zmq_running
    /\ cmdPc' = "link_sleep"
    /\ sent' = <<>>
    /\ UNCHANGED <<linkVars, flagVars, pollPc, statusPVs, timeout_rbv, fileVars, autosaveVars, recorderVars, eventVars, configVars>>

\* Wrapper.monitor_command_stream
MonitorCommandStream ==
    \/ MonitorCommandLoop
    \/ MonitorCommandStatus
    \/ MonitorCommandOther
    \/ MonitorCommandUnparseable
    \/ MonitorCommandNone

\* ------------------------------------------------------ event-stream monitor
\* The variables the event link and its monitor leave alone.
nonEventVars == <<linkVars, flagVars, pollPc, cmdPc, statusPVs, timeout_rbv, fileVars, autosaveVars, recorderVars, configVars>>

\* ZeroMQAdapter.run_forever of the event link: the link (re)connects.
EventConnect ==
    /\ ~event_running
    /\ event_running' = TRUE
    /\ sent' = <<>>
    /\ UNCHANGED <<evQ, evPc, frames_written, write_error, nonEventVars>>

\* ZeroMQAdapter.run_forever of the event link: a transport fault.
EventFault ==
    /\ event_running
    /\ event_running' = FALSE
    /\ sent' = <<>>
    /\ UNCHANGED <<evQ, evPc, frames_written, write_error, nonEventVars>>

\* The device publishes a message; it reaches the inbound queue.
DeviceEvent ==
    /\ event_running
    /\ Len(evQ) < MaxEvents
    /\ \E msg \in EventMsgs : evQ' = Append(evQ, msg)
    /\ sent' = <<>>
    /\ UNCHANGED <<event_running, evPc, frames_written, write_error, nonEventVars>>

\* where monitor_event_stream suspends next, from the head of its loop
NextEvPc == IF event_running THEN "get_response" ELSE "link_sleep"

\* the task starts, or wakes from the sleep of its reconnect wait
MonitorEventLoop ==
    /\ evPc \in {"start", "link_sleep"}
    /\ evPc' = NextEvPc
    /\ frames_written' = <<>>
    /\ write_error' = FALSE
    /\ sent' = <<>>
    /\ UNCHANGED <<event_running, evQ, nonEventVars>>

\* MonitorEventFrame that hands the frame over whether or not a file is open
MonitorEventFrameAlwaysWrites ==
    /\ evPc = "get_response"
    /\ evQ # <<>>
    /\ Head(evQ).kind = "frame"
    /\ evQ' = Tail(evQ)
    /\ frames_written' = <<Head(evQ)>>
    /\ write_error' = FALSE
    /\ evPc' = NextEvPc
    /\ sent' = <<>>
    /\ UNCHANGED <<event_running, nonEventVars>>

\* MonitorEventFrame that tests the file in one step and writes in the next,
\* here with the file closed in between
MonitorEventFrameWritesLater ==
    /\ evPc = "get_response"
    /\ evQ # <<>>
    /\ Head(evQ).kind = "frame"
    /\ evQ' = Tail(evQ)
    /\ frames_written' = IF h5f_file_open \/ file_open = 1 THEN <<Head(evQ)>> ELSE <<>>
    /\ write_error' = FALSE
    /\ evPc' = NextEvPc
    /\ sent' = <<>>
    /\ UNCHANGED <<event_running, nonEventVars>>

\* MonitorEventFrameRaises that lets the RuntimeError leave the coroutine
MonitorEventFrameUncaught ==
    /\ evPc = "get_response"
    /\ evQ # <<>>
    /\ Head(evQ).kind = "frame"
    /\ h5f_file_open
    /\ evQ' = Tail(evQ)
    /\ frames_written' = <<Head(evQ)>>
    /\ write_error' = TRUE
    /\ evPc' = "raised"
    /\ sent' = <<>>
    /\ UNCHANGED <<event_running, nonEventVars>>

\* MonitorEventFrame that opens the output file for a frame that finds none
MonitorEventFrameOpens ==
    /\ evPc = "get_response"
    /\ evQ # <<>>
    /\ Head(evQ).kind = "frame"
    /\ evQ' = Tail(evQ)
    /\ frames_written' = <<Head(evQ)>>
    /\ write_error' = FALSE
    /\ h5f_file_open' = TRUE
    /\ evPc' = NextEvPc
    /\ sent' = <<>>
    /\ UNCHANGED <<event_running, linkVars, flagVars, pollPc, cmdPc, statusPVs, timeout_rbv, file_open, file_close, autosaveVars, recorderVars, configVars>>

\* a payload with a frame_number key: written if the file is open, else dropped
\* with a warning
MonitorEventFrame ==
    /\ evPc = "get_response"
    /\ evQ # <<>>
    /\ Head(evQ).kind = "frame"
    /\ evQ' = Tail(evQ)
    /\ frames_written' = IF h5f_file_open THEN <<Head(evQ)>> ELSE <<>>
    /\ write_error' = FALSE
    /\ evPc' = NextEvPc
    /\ sent' = <<>>
    /\ UNCHANGED <<event_running, nonEventVars>>

\* a payload with a frame_number key, the file open, and h5f._write_to_file
\* raises a RuntimeError: the except clause prints it
MonitorEventFrameRaises ==
    /\ evPc = "get_response"
    /\ evQ # <<>>
    /\ Head(evQ).kind = "frame"
    /\ h5f_file_open
    /\ evQ' = Tail(evQ)
    /\ frames_written' = <<Head(evQ)>>
    /\ write_error' = TRUE
    /\ evPc' = NextEvPc
    /\ sent' = <<>>
    /\ UNCHANGED <<event_running, nonEventVars>>

\* a JSON object without a frame_number key
MonitorEventOther ==
    /\ evPc = "get_response"
    /\ evQ # <<>>
    /\ Head(evQ).kind = "other"
    /\ evQ' = Tail(evQ)
    /\ frames_written' = <<>>
    /\ write_error' = FALSE
    /\ evPc' = NextEvPc
    /\ sent' = <<>>
    /\ UNCHANGED <<event_running, nonEventVars>>

\* json.loads raises on the payload: the exception leaves the coroutine
MonitorEventUnparseable ==
    /\ evPc = "get_response"
    /\ evQ # <<>>
    /\ Head(evQ).kind = "unparseable"
    /\ evQ' = Tail(evQ)
    /\ frames_written' = <<>>
    /\ write_error' = FALSE
    /\ evPc' = "raised"
    /\ sent' = <<>>
    /\ UNCHANGED <<event_running, nonEventVars>>

\* get_response returns None when the link is torn down
MonitorEventNone ==
    /\ evPc = "get_response"
    /\ evQ = <<>>
    /\ ~event_running
    /\ evPc' = "link_sleep"
    /\ frames_written' = <<>>
    /\ write_error' = FALSE
    /\ sent' = <<>>
    /\ UNCHANGED <<event_running, evQ, nonEventVars>>

\* monitor_event_stream with a recorder whose writes return
MonitorEventStreamWrites ==
    \/ MonitorEventLoop
    \/ MonitorEventFrame
    \/ MonitorEventOther
    \/ MonitorEventUnparseable
    \/ MonitorEventNone

\* Wrapper.monitor_event_stream
MonitorEventStream ==
    \/ MonitorEventLoop
    \/ MonitorEventFrame
    \/ MonitorEventFrameRaises
    \/ MonitorEventOther
    \/ MonitorEventUnparseable
    \/ MonitorEventNone

\* ------------------------------------------------------- command operations
\* Wrapper._set_timeout
SetTimeout ==
    /\ \E timeout \in Timeouts :
        IfConnected(connected,
                    SendMessage(<<Configure("timeout", timeout)>>) /\ timeout_rbv' = timeout,
                    SendMessage(<<>>) /\ UNCHANGED timeout_rbv)
    /\ UNCHANGED <<zmq_running, cmdQ, flagVars, pollPc, cmdPc, statusPVs, fileVars, autosaveVars, recorderVars, eventVars, configVars>>

\* Wrapper._reset
Reset ==
    /\ \E v \in Triggers :
        IfConnected(connected,
                    SendMessage(IF v = 1 THEN <<ResetCmd>> ELSE <<>>),
                    SendMessage(<<>>))
    /\ UNCHANGED <<zmq_running, cmdQ, flagVars, pollPc, cmdPc, statusPVs, timeout_rbv, fileVars, autosaveVars, recorderVars, eventVars, configVars>>

\* _start_singleshot that does not look at MODE_RBV
StartSingleshotMsgsAnyMode(trigger) ==
    IF trigger = 1 /\ (state = 3 \/ state = 4) THEN <<SingleshotCmd>> ELSE <<>>

\* Wrapper._start_singleshot: what it sends
StartSingleshotMsgs(trigger) ==
    IF trigger = 1 /\ (state = 3 \/ state = 4) /\ mode_rbv = 2 THEN <<SingleshotCmd>> ELSE <<>>

\* SINGLESHOT:START is written with trigger: _start_singleshot runs.
StartSingleshotWith(trigger) ==
    /\ IfConnected(connected,
                   SendMessage(StartSingleshotMsgs(trigger)),
                   SendMessage(<<>>))
    /\ UNCHANGED <<zmq_running, cmdQ, flagVars, pollPc, cmdPc, statusPVs, timeout_rbv, fileVars, autosaveVars, recorderVars, eventVars, configVars>>

StartSingleshot == \E trigger \in Triggers : StartSingleshotWith(trigger)

\* ------------------------------------------------------------ autosave file
\* A text is a sequence of characters; a key, which holds no space, is one
\* element of it.  Numbers are whole: a Python float prints with ".0".
DigitChars == <<"0", "1", "2", "3", "4", "5", "6", "7", "8", "9">>

\* str(n) for an int n >= 0
RECURSIVE NatStr(_)
NatStr(n) == IF n < 10 THEN <<DigitChars[n + 1]>> ELSE NatStr(n \div 10) \o <<DigitChars[(n % 10) + 1]>>

\* f"{value}": str of an int or of a float
Str(value, is_float) ==
    (IF value < 0 THEN <<"-">> \o NatStr(-value) ELSE NatStr(value)) \o (IF is_float THEN <<".", "0">> ELSE <<>>)

\* "\n".join(lines)
RECURSIVE Join(_)
Join(lines) ==
    IF lines = <<>> THEN <<>>
    ELSE IF Len(lines) = 1 THEN lines[1]
    ELSE lines[1] \o <<"\n">> \o Join(Tail(lines))

\* Wrapper.write_autosave: "key value" for every entry in insertion order,
\* joined by newlines (the dated backup file gets the same text)
WriteAutosave(dict) == Join([i \in 1..Len(dict) |-> <<dict[i][1], " ">> \o Str(dict[i][2], dict[i][3])])

\* text.split(sep)
RECURSIVE Split(_, _)
Split(text, sep) ==
    IF \A i \in 1..Len(text) : text[i] # sep THEN <<text>>
    ELSE LET at == CHOOSE i \in 1..Len(text) : text[i] = sep /\ \A j \in 1..(i - 1) : text[j] # sep
         IN  <<SubSeq(text, 1, at - 1)>> \o Split(SubSeq(text, at + 1, Len(text)), sep)

\* the lines a text file yields when iterated
Lines(text) == IF text = <<>> THEN <<>> ELSE Split(text, "\n")

\* line.strip()
RECURSIVE Strip(_)
Strip(line) ==
    IF line # <<>> /\ Head(line) \in {" ", "\n"} THEN Strip(Tail(line))
    ELSE IF line # <<>> /\ line[Len(line)] \in {" ", "\n"} THEN Strip(SubSeq(line, 1, Len(line) - 1))
    ELSE line

\* int of a run of digits
RECURSIVE NatValue(_)
NatValue(digits) ==
    IF digits = <<>> THEN 0
    ELSE NatValue(SubSeq(digits, 1, Len(digits) - 1)) * 10 + ((CHOOSE d \in 1..10 : DigitChars[d] = digits[Len(digits)]) - 1)

\* Float that reads the digits and drops the sign
FloatUnsigned(text) ==
    LET unsigned == IF Head(text) = "-" THEN Tail(text) ELSE text
    IN  NatValue(Split(unsigned, ".")[1])

\* float(text) of a whole number: sign, digits, and a fraction of zeros if any
Float(text) ==
    LET negative == Head(text) = "-"
        unsigned == IF negative THEN Tail(text) ELSE text
        whole    == Split(unsigned, ".")[1]
    IN  IF negative THEN 0 - NatValue(whole) ELSE NatValue(whole)

\* dict[key] = value: in place when the key is there, else at the end
Put(dict, key, value, is_float) ==
    IF \E i \in 1..Len(dict) : dict[i][1] = key
    THEN [i \in 1..Len(dict) |-> IF dict[i][1] = key THEN <<key, value, is_float>> ELSE dict[i]]
    ELSE Append(dict, <<key, value, is_float>>)

\* key in dict.keys()
HasKey(dict, key) == \E i \in 1..Len(dict) : dict[i][1] = key

\* dict[key]
Get(dict, key) == dict[CHOOSE i \in 1..Len(dict) : dict[i][1] = key][2]

\* Wrapper._get_autosave: every line is stripped and split at " ", the first
\* field is the key and the second, as a float, its value
RECURSIVE GetAutosaveLines(_, _)
GetAutosaveLines(dict, lines) ==
    IF lines = <<>> THEN dict
    ELSE LET line_ == Split(Strip(Head(lines)), " ")
         IN  GetAutosaveLines(Put(dict, line_[1][1], Float(line_[2]), TRUE), Tail(lines))

GetAutosave(text) == GetAutosaveLines(<<>>, Lines(text))

\* Wrapper._set_shutter_pos (the call of _set_shutter in it changes nothing:
\* its coroutine is never awaited)
SetShutterPos ==
    /\ \E val \in ShutterPositions, shutter_state \in {"OPEN", "CLOSED"} :
        /\ SendMessage(IF shutter_state = "CLOSED"
                       THEN <<Configure("shutter_closed_position", val)>>
                       ELSE <<>>)
        /\ autosave_dict' = Put(autosave_dict, shutter_state, val, TRUE)
        /\ autosave_file' = WriteAutosave(autosave_dict')
    /\ UNCHANGED <<zmq_running, cmdQ, flagVars, pollPc, cmdPc, statusPVs, timeout_rbv, fileVars, recorderVars, eventVars, configVars>>

\* ------------------------------------------------- mode and attenuation
\* record.set(value) of ATTENUATION: the record takes the value and, when the
\* value is new, its on_update is dispatched
AttenuationSet(value) ==
    /\ attenuation' = value
    /\ attenuation_update' = IF attenuation # value THEN Append(attenuation_update, value) ELSE attenuation_update
    /\ Len(attenuation_update') <= MaxPending

\* _set_manual_attenuation that does not look at STATE
SetManualAttenuationMsgsAnyState(conn, value) ==
    IF conn /\ mode_rbv = 0 THEN <<Configure("attenuation", value)>> ELSE <<>>

\* Wrapper._set_manual_attenuation: what it sends
SetManualAttenuationMsgs(conn, value) ==
    IF conn /\ state = 0 /\ mode_rbv = 0 THEN <<Configure("attenuation", value)>> ELSE <<>>

\* _set_mode that leaves the output file open
SetModeKeepsFile(value) ==
    /\ SendMessage(<<Configure("mode", value)>>)
    /\ mode_rbv' = value
    /\ UNCHANGED <<h5f_file_open, file_open>>
    /\ IF value = 0 THEN AttenuationSet(MaxAttenuation) ELSE UNCHANGED <<attenuation, attenuation_update>>

\* body of Wrapper._set_mode
SetModeBody(value) ==
    /\ SendMessage(<<Configure("mode", value)>>)
    /\ mode_rbv' = value
    /\ CloseFileBody(1)
    /\ IF value = 0 THEN AttenuationSet(MaxAttenuation) ELSE UNCHANGED <<attenuation, attenuation_update>>

\* MODE is written with value: the record takes it and _set_mode runs.
SetModeTo(value) ==
    /\ mode' = value
    /\ IfConnected(connected,
                   SetModeBody(value),
                   SendMessage(<<>>) /\ UNCHANGED <<mode_rbv, h5f_file_open, file_open, attenuation, attenuation_update>>)
    /\ UNCHANGED <<zmq_running, cmdQ, flagVars, pollPc, cmdPc, statusPVs, timeout_rbv, file_close, autosaveVars, recorderVars, eventVars, filter_set_rbv, pixel_count_thresholds, initPc, histPc, filter_in>>

SetMode == \E value \in Modes : SetModeTo(value)

\* ATTENUATION is written: the record takes the value and
\* _set_manual_attenuation runs.
SetManualAttenuation ==
    /\ \E value \in ManualAttenuations :
        /\ attenuation' = value
        /\ SendMessage(SetManualAttenuationMsgs(connected, value))
    /\ UNCHANGED <<zmq_running, cmdQ, flagVars, pollPc, cmdPc, statusPVs, timeout_rbv, fileVars, autosaveVars, recorderVars, eventVars, mode, mode_rbv, attenuation_update, filter_set_rbv, pixel_count_thresholds, initPc, histPc, filter_in>>

\* The dispatcher runs an on_update of ATTENUATION that a set() has left.
AttenuationUpdate ==
    /\ attenuation_update # <<>>
    /\ attenuation_update' = Tail(attenuation_update)
    /\ SendMessage(SetManualAttenuationMsgs(connected, Head(attenuation_update)))
    /\ UNCHANGED <<zmq_running, cmdQ, flagVars, pollPc, cmdPc, statusPVs, timeout_rbv, fileVars, autosaveVars, recorderVars, eventVars, mode, mode_rbv, attenuation, filter_set_rbv, pixel_count_thresholds, initPc, histPc, filter_in>>

\* ------------------------------------------------- autosaved parameters
\* Wrapper._set_filter_set, connected: the messages it sends, with the in
\* position of the first filter set as the record holds it
FilterSetMsgs(filter_set_num, in_pos) ==
    <<Configure("positions", IF filter_set_num = 0 THEN in_pos ELSE FilterInDefault)>>
    \o (IF mode > 0 THEN <<Configure("mode", 0)>> ELSE SetManualAttenuationMsgs(TRUE, MaxAttenuation))

\* Wrapper._set_filter_set, connected: the records it sets; with MODE above 0
\* it calls _set_mode(0), which closes the output file
FilterSetRecords(filter_set_num) ==
    /\ filter_set_rbv' = filter_set_num
    /\ mode' = 0
    /\ mode_rbv' = IF mode > 0 THEN 0 ELSE mode_rbv
    /\ IF mode > 0 THEN CloseFileBody(1) ELSE UNCHANGED <<h5f_file_open, file_open>>

\* FILTER_SET is written: _set_filter_set runs.
SetFilterSet ==
    /\ \E filter_set_num \in FilterSets :
        IfConnected(connected,
                    /\ SendMessage(FilterSetMsgs(filter_set_num, filter_in))
                    /\ FilterSetRecords(filter_set_num)
                    /\ IF mode > 0 THEN AttenuationSet(MaxAttenuation) ELSE UNCHANGED <<attenuation, attenuation_update>>
                    /\ autosave_dict' = Put(autosave_dict, FilterSetKey, filter_set_num, FALSE)
                    /\ autosave_file' = WriteAutosave(autosave_dict'),
                    /\ SendMessage(<<>>)
                    /\ UNCHANGED <<filter_set_rbv, mode, mode_rbv, h5f_file_open, file_open, attenuation, attenuation_update, autosaveVars>>)
    /\ UNCHANGED <<zmq_running, cmdQ, flagVars, pollPc, cmdPc, statusPVs, timeout_rbv, file_close, recorderVars, eventVars, pixel_count_thresholds, initPc, histPc, filter_in>>

\* _set_pos that sets the filter set again whichever set is selected
SetPosAlwaysResends ==
    /\ \E val \in PosValues :
        /\ filter_in' = val
        /\ IfConnected(connected,
                       /\ SendMessage(FilterSetMsgs(0, val))
                       /\ FilterSetRecords(0)
                       /\ IF mode > 0 THEN AttenuationSet(MaxAttenuation) ELSE UNCHANGED <<attenuation, attenuation_update>>
                       /\ autosave_dict' = Put(Put(autosave_dict, FilterInKey, val, TRUE), FilterSetKey, 0, FALSE)
                       /\ autosave_file' = WriteAutosave(autosave_dict'),
                       /\ SendMessage(<<>>)
                       /\ UNCHANGED <<filter_set_rbv, mode, mode_rbv, h5f_file_open, file_open, attenuation, attenuation_update, autosaveVars>>)
    /\ UNCHANGED <<zmq_running, cmdQ, flagVars, pollPc, cmdPc, statusPVs, timeout_rbv, file_close, recorderVars, eventVars, pixel_count_thresholds, initPc, histPc>>

\* FILTER_SET:1:IN:1 is written: the record takes the value and _set_pos runs,
\* which sets the filter set again when it is the selected one.
SetPos ==
    /\ \E val \in PosValues :
        /\ filter_in' = val
        /\ IfConnected(connected,
                       IF filter_set_rbv = 0
                       THEN /\ SendMessage(FilterSetMsgs(0, val))
                            /\ FilterSetRecords(0)
                            /\ IF mode > 0 THEN AttenuationSet(MaxAttenuation) ELSE UNCHANGED <<attenuation, attenuation_update>>
                            /\ autosave_dict' = Put(Put(autosave_dict, FilterInKey, val, TRUE), FilterSetKey, 0, FALSE)
                            /\ autosave_file' = WriteAutosave(autosave_dict')
                       ELSE /\ SendMessage(<<>>)
                            /\ autosave_dict' = Put(autosave_dict, FilterInKey, val, TRUE)
                            /\ autosave_file' = WriteAutosave(autosave_dict')
                            /\ UNCHANGED <<filter_set_rbv, mode, mode_rbv, h5f_file_open, file_open, attenuation, attenuation_update>>,
                       /\ SendMessage(<<>>)
                       /\ UNCHANGED <<filter_set_rbv, mode, mode_rbv, h5f_file_open, file_open, attenuation, attenuation_update, autosaveVars>>)
    /\ UNCHANGED <<zmq_running, cmdQ, flagVars, pollPc, cmdPc, statusPVs, timeout_rbv, file_close, recorderVars, eventVars, pixel_count_thresholds, initPc, histPc>>

\* Wrapper._set_thresholds: the command with the five thresholds
SetThresholdsMsgs(thresholds) == <<Configure("pixel_count_thresholds", thresholds)>>

\* HIGH:THRESHOLD:EXTREME is written with threshold:
\* _set_extreme_high_threshold runs, and for a new value _set_thresholds.
SetExtremeHighThresholdTo(threshold) ==
    /\ IfConnected(connected /\ threshold # pixel_count_thresholds.high3,
                   /\ pixel_count_thresholds' = [pixel_count_thresholds EXCEPT !.high3 = threshold]
                   /\ autosave_dict' = Put(autosave_dict, ExtremeHighKey, threshold, TRUE)
                   /\ SendMessage(SetThresholdsMsgs(pixel_count_thresholds'))
                   /\ autosave_file' = WriteAutosave(autosave_dict'),
                   /\ SendMessage(<<>>)
                   /\ UNCHANGED <<pixel_count_thresholds, autosaveVars>>)
    /\ UNCHANGED <<zmq_running, cmdQ, flagVars, pollPc, cmdPc, statusPVs, timeout_rbv, fileVars, recorderVars, eventVars, mode, mode_rbv, attenuation, attenuation_update, filter_set_rbv, initPc, histPc, filter_in>>

SetExtremeHighThreshold == \E threshold \in ThresholdValues : SetExtremeHighThresholdTo(threshold)

\* LOW:THRESHOLD:LOWER is written with threshold: _set_lower_low_threshold
\* runs, and for a new value _set_thresholds.
SetLowerLowThresholdTo(threshold) ==
    /\ IfConnected(connected /\ threshold # pixel_count_thresholds.low1,
                   /\ pixel_count_thresholds' = [pixel_count_thresholds EXCEPT !.low1 = threshold]
                   /\ autosave_dict' = Put(autosave_dict, LowerLowKey, threshold, TRUE)
                   /\ SendMessage(SetThresholdsMsgs(pixel_count_thresholds'))
                   /\ autosave_file' = WriteAutosave(autosave_dict'),
                   /\ SendMessage(<<>>)
                   /\ UNCHANGED <<pixel_count_thresholds, autosaveVars>>)
    /\ UNCHANGED <<zmq_running, cmdQ, flagVars, pollPc, cmdPc, statusPVs, timeout_rbv, fileVars, recorderVars, eventVars, mode, mode_rbv, attenuation, attenuation_update, filter_set_rbv, initPc, histPc, filter_in>>

SetLowerLowThreshold == \E threshold \in LowerLowValues : SetLowerLowThresholdTo(threshold)

\* HIST:HIGH1 is written: _set_hist runs up to its await of caput.
SetHist ==
    /\ \E hist_val \in HistValues :
        IfConnected(connected,
                    /\ autosave_dict' = Put(autosave_dict, HistKey, hist_val, TRUE)
                    /\ histPc' = Append(histPc, hist_val)
                    /\ Len(histPc') <= MaxPending,
                    UNCHANGED <<autosave_dict, histPc>>)
    /\ SendMessage(<<>>)
    /\ UNCHANGED <<zmq_running, cmdQ, flagVars, pollPc, cmdPc, statusPVs, timeout_rbv, fileVars, autosave_file, recorderVars, eventVars, mode, mode_rbv, attenuation, attenuation_update, filter_set_rbv, pixel_count_thresholds, initPc, filter_in>>

\* _set_hist whose caput has returned: it writes the autosave file.
SetHistWritten ==
    /\ histPc # <<>>
    /\ histPc' = Tail(histPc)
    /\ autosave_file' = WriteAutosave(autosave_dict)
    /\ SendMessage(<<>>)
    /\ UNCHANGED <<zmq_running, cmdQ, flagVars, pollPc, cmdPc, statusPVs, timeout_rbv, fileVars, autosave_dict, recorderVars, eventVars, mode, mode_rbv, attenuation, attenuation_update, filter_set_rbv, pixel_count_thresholds, initPc, filter_in>>

\* _set_hist whose caput has failed (the detector's record cannot be written
\* within the timeout): the exception ends the coroutine before write_autosave.
SetHistRaised ==
    /\ histPc # <<>>
    /\ histPc' = Tail(histPc)
    /\ SendMessage(<<>>)
    /\ UNCHANGED <<zmq_running, cmdQ, flagVars, pollPc, cmdPc, statusPVs, timeout_rbv, fileVars, autosaveVars, recorderVars, eventVars, mode, mode_rbv, attenuation, attenuation_update, filter_set_rbv, pixel_count_thresholds, initPc, filter_in>>

\* the await of caput in _set_hist ends
SetHistCaput == SetHistWritten \/ SetHistRaised

\* ------------------------------------------------- initial configuration
\* while not self.connected: await asyncio.sleep(0.5)
SendInitialConfigWait ==
    /\ initPc = "wait_connected"
    /\ ~connected
    /\ SendMessage(<<>>)
    /\ UNCHANGED <<zmq_running, cmdQ, flagVars, pollPc, cmdPc, statusPVs, timeout_rbv, fileVars, autosaveVars, recorderVars, eventVars, configVars>>

\* The filter set _send_initial_config restores: the autosaved one, else 0.
InitialFilterSet == IF HasKey(autosave_dict, FilterSetKey) THEN Get(autosave_dict, FilterSetKey) ELSE 0

\* SendInitialConfigSends that does not wait for the connection
SendInitialConfigSendsAtOnce ==
    /\ initPc = "wait_connected"
    /\ initPc' = "done"
    /\ SendMessage(<<Configure("shutter_closed_position", Get(autosave_dict, "CLOSED"))>> \o FilterSetMsgs(InitialFilterSet, filter_in))
    /\ FilterSetRecords(InitialFilterSet)
    /\ AttenuationSet(MaxAttenuation)
    /\ autosave_dict' = Put(autosave_dict, FilterSetKey, InitialFilterSet, FALSE)
    /\ autosave_file' = WriteAutosave(autosave_dict')
    /\ UNCHANGED <<zmq_running, cmdQ, flagVars, pollPc, cmdPc, statusPVs, timeout_rbv, file_close, recorderVars, eventVars, pixel_count_thresholds, histPc, filter_in>>

\* _send_initial_config once connected: the shutter closed position, the
\* filter set with its positions, and ATTENUATION set to 15.  (The set-up of
\* the histogram thresholds it schedules at the end is a task of its own.)
SendInitialConfigSends ==
    /\ initPc = "wait_connected"
    /\ connected
    /\ initPc' = "done"
    /\ SendMessage(<<Configure("shutter_closed_position", Get(autosave_dict, "CLOSED"))>> \o FilterSetMsgs(InitialFilterSet, filter_in))
    /\ FilterSetRecords(InitialFilterSet)
    /\ AttenuationSet(MaxAttenuation)
    /\ autosave_dict' = Put(autosave_dict, FilterSetKey, InitialFilterSet, FALSE)
    /\ autosave_file' = WriteAutosave(autosave_dict')
    /\ UNCHANGED <<zmq_running, cmdQ, flagVars, pollPc, cmdPc, statusPVs, timeout_rbv, file_close, recorderVars, eventVars, pixel_count_thresholds, histPc, filter_in>>

\* Wrapper._send_initial_config
SendInitialConfig == SendInitialConfigWait \/ SendInitialConfigSends

\* ------------------------------------------------------------------ restart
\* The program is started again with the autosave file of the run before:
\* Wrapper.__init__ reads the file, and the records that are autosaved start
\* from what it holds.
Restart ==
    /\ autosave_file # <<>>
    /\ histPc = <<>>
    /\ autosave_dict' = GetAutosave(autosave_file)
    /\ filter_in' = Get(autosave_dict', FilterInKey)
    /\ UNCHANGED autosave_file
    /\ connected' = FALSE
    /\ status_recv' = TRUE
    /\ zmq_running' = FALSE
    /\ cmdQ' = <<>>
    /\ reqs' = 0
    /\ sent' = <<>>
    /\ pollPc' = "start"
    /\ cmdPc' = "start"
    /\ state' = 0
    /\ version' = 0
    /\ process_duration' = 0
    /\ process_period' = 0
    /\ last_frame_received' = 0
    /\ last_frame_processed' = 0
    /\ time_since_last_frame' = 0
    /\ current_attenuation' = 0
    /\ timeout_rbv' = InitialTimeout
    /\ file_open' = 0
    /\ file_close' = 0
    /\ h5f_file_open' = FALSE
    /\ mode' = 0
    /\ mode_rbv' = 0
    /\ attenuation' = 0
    /\ attenuation_update' = <<>>
    /\ filter_set_rbv' = 0
    /\ pixel_count_thresholds' = PixelCountDefaults
    /\ initPc' = "wait_connected"
    /\ UNCHANGED <<histPc, recorderVars, eventVars>>

\* ------------------------------ frame recorder: src/pmacFilterControlWrapper.py
\* The variables the recorder's steps leave alone.
supervisionVars == <<cmdQ, reqs, sent, pollPc, cmdPc, fileVars, autosaveVars, eventVars, configVars>>

\* Wrapper._check_path: whether the path can be used, and FILE:FULL_NAME after it
CheckPath(fs) ==
    IF file_path = "" \/ file_name = ""
    THEN [ok |-> FALSE, full |-> file_full_name]
    ELSE IF ~fs.isdir
         THEN [ok |-> fs.parent_isdir, full |-> file_full_name]
         ELSE [ok |-> TRUE,
               full |-> IF fs.isfile
                        THEN CombineFilePathAndName(file_path, file_name, TRUE)
                        ELSE file_full_name]

\* Wrapper._open_file: the handle, FILE:FULL_NAME, the value returned and the
\* exception raised.  h5py.File raises OSError when the directory is missing.
OpenFileResultReplaces(fs) ==
    IF h5f = None
    THEN LET chk == CheckPath(fs) IN
         IF chk.ok
         THEN IF fs.isdir \/ fs.cwd_is_parent
              THEN [h5f |-> File(chk.full), full |-> chk.full, result |-> TRUE, exc |-> "none"]
              ELSE [h5f |-> None, full |-> chk.full, result |-> FALSE, exc |-> "OSError"]
         ELSE [h5f |-> None, full |-> chk.full, result |-> TRUE, exc |-> "none"]
    ELSE IF file_full_name = h5f.filename
         THEN [h5f |-> h5f, full |-> file_full_name, result |-> TRUE, exc |-> "none"]
         ELSE [h5f |-> File(file_full_name), full |-> file_full_name, result |-> TRUE, exc |-> "none"]
OpenFileResult(fs) ==
    IF h5f = None
    THEN LET chk == CheckPath(fs) IN
         IF chk.ok
         THEN IF fs.isdir \/ fs.cwd_is_parent
              THEN [h5f |-> File(chk.full), full |-> chk.full, result |-> TRUE, exc |-> "none"]
              ELSE [h5f |-> None, full |-> chk.full, result |-> FALSE, exc |-> "OSError"]
         ELSE [h5f |-> None, full |-> chk.full, result |-> TRUE, exc |-> "none"]
    ELSE [h5f |-> h5f, full |-> file_full_name, result |-> file_full_name = h5f.filename, exc |-> "none"]

\* Wrapper._close_file: the handle after the call and the exception raised
CloseFileResult(h) ==
    IF h = None
    THEN [h5f |-> h, exc |-> "AssertionError"]
    ELSE [h5f |-> None, exc |-> "none"]

\* a dataset of n zeros, and a dataset resized to n (new slots are 0)
Zeros(n) == [i \in 1..n |-> 0]
ResizeFillsOne(dset, n) == [i \in 1..n |-> IF i <= Len(dset) THEN dset[i] ELSE 1]
Resize(dset, n) == [i \in 1..n |-> IF i <= Len(dset) THEN dset[i] ELSE 0]

\* dset[frame_number] = value
SetSlotKeepsWritten(dset, slot, value) == IF dset[slot] # 0 THEN dset ELSE [dset EXCEPT ![slot] = value]
SetSlot(dset, slot, value) == [dset EXCEPT ![slot] = value]

\* the loop of _write_to_hdf5 that adds 1 to dset_size while it is <= the frame number
RECURSIVE GrownSizeDoubles(_, _)
GrownSizeDoubles(dset_size, frame_number) ==
    IF dset_size <= frame_number THEN GrownSizeDoubles(dset_size * 2, frame_number) ELSE dset_size
RECURSIVE GrownSize(_, _)
GrownSize(dset_size, frame_number) ==
    IF dset_size <= frame_number THEN GrownSize(dset_size + 1, frame_number) ELSE dset_size

WriteToHdf5GrowsOne(h, data) ==
    IF h = None
    THEN [h5f |-> h, exc |-> "AssertionError"]
    ELSE LET adjustment_dset == IF h.adjustment = <<>> THEN Zeros(DatasetSize) ELSE h.adjustment
             attenuation_dset == IF h.attenuation = <<>> THEN Zeros(DatasetSize) ELSE h.attenuation
             created == [h EXCEPT !.adjustment = adjustment_dset, !.attenuation = attenuation_dset]
         IN  IF Len(adjustment_dset) # Len(attenuation_dset)
             THEN [h5f |-> created, exc |-> "AssertionError"]
             ELSE LET dset_size == IF data.frame_number >= Len(adjustment_dset)
                                   THEN GrownSize(Len(adjustment_dset), data.frame_number)
                                   ELSE Len(adjustment_dset)
                      slot == data.frame_number + 1
                  IN  [h5f |-> [h EXCEPT
                                  !.adjustment = SetSlot(Resize(adjustment_dset, dset_size), slot, data.adjustment),
                                  !.attenuation = SetSlot(Resize(attenuation_dset, Len(attenuation_dset)), IF slot <= Len(attenuation_dset) THEN slot ELSE 1, data.attenuation)],
                       exc |-> "none"]

\* Wrapper._write_to_hdf5: the file after the call and the exception raised
WriteToHdf5(h, data) ==
    IF h = None
    THEN [h5f |-> h, exc |-> "AssertionError"]
    ELSE LET adjustment_dset == IF h.adjustment = <<>> THEN Zeros(DatasetSize) ELSE h.adjustment
             attenuation_dset == IF h.attenuation = <<>> THEN Zeros(DatasetSize) ELSE h.attenuation
             created == [h EXCEPT !.adjustment = adjustment_dset, !.attenuation = attenuation_dset]
         IN  IF Len(adjustment_dset) # Len(attenuation_dset)
             THEN [h5f |-> created, exc |-> "AssertionError"]
             ELSE LET dset_size == IF data.frame_number >= Len(adjustment_dset)
                                   THEN GrownSize(Len(adjustment_dset), data.frame_number)
                                   ELSE Len(adjustment_dset)
                      slot == data.frame_number + 1
                  IN  [h5f |-> [h EXCEPT
                                  !.adjustment = SetSlot(Resize(adjustment_dset, dset_size), slot, data.adjustment),
                                  !.attenuation = SetSlot(Resize(attenuation_dset, dset_size), slot, data.attenuation)],
                       exc |-> "none"]

\* Wrapper._handle_status of src/pmacFilterControlWrapper.py: publish the fields
\* as they are; close the file when the time since the last frame exceeds the
\* timeout and a file is open.  An exception of _close_file is caught and printed.
RecorderHandleStatus(status) ==
    /\ state' = status.state
    /\ version' = status.version
    /\ process_duration' = status.process_duration
    /\ process_period' = status.process_period
    /\ last_frame_received' = status.last_received_frame
    /\ last_frame_processed' = status.last_processed_frame
    /\ time_since_last_frame' = status.time_since_last_message
    /\ current_attenuation' = status.current_attenuation
    /\ h5f' = IF status.time_since_last_message > timeout_rbv /\ h5f # None
              THEN CloseFileResult(h5f).h5f
              ELSE h5f

\* Wrapper.monitor_responses(zmq_stream), a payload with a "status" key
MonitorResponsesStatus ==
    /\ monitorPc.zmq_stream = "get_response"
    /\ \E status \in RecorderStatusMsgs :
        /\ connected' = TRUE
        /\ RecorderHandleStatus(status)
        /\ status_recv' = TRUE
    /\ UNCHANGED <<zmq_running, timeout_rbv, file_path, file_name, file_full_name, monitorPc, raised, open_returned, supervisionVars>>

\* Wrapper.monitor_responses(event_stream), a payload with a "frame_number"
\* key: open the file, and write the frame if _open_file returned True.  An
\* exception leaves the coroutine.
MonitorResponsesFrame ==
    /\ monitorPc.event_stream = "get_response"
    /\ \E data \in FrameMsgs, fs \in FsViews :
        LET opened == OpenFileResult(fs)
            written == WriteToHdf5(opened.h5f, data)
        IN  /\ file_full_name' = opened.full
            /\ open_returned' = IF opened.exc # "none" THEN "raised"
                                ELSE IF opened.result THEN "True" ELSE "False"
            /\ IF opened.exc # "none"
               THEN /\ h5f' = opened.h5f
                    /\ monitorPc' = [monitorPc EXCEPT !.event_stream = "raised"]
               ELSE IF opened.result
                    THEN /\ h5f' = written.h5f
                         /\ monitorPc' = IF written.exc # "none"
                                         THEN [monitorPc EXCEPT !.event_stream = "raised"]
                                         ELSE monitorPc
                    ELSE /\ h5f' = opened.h5f
                         /\ UNCHANGED monitorPc
    /\ UNCHANGED <<zmq_running, flagVars, statusPVs, timeout_rbv, file_path, file_name, raised, supervisionVars>>


\* Wrapper._close_file called on its own: the recorder's close operation
RecorderCloseFile ==
    /\ h5f' = CloseFileResult(h5f).h5f
    /\ raised' = CloseFileResult(h5f).exc
    /\ UNCHANGED <<zmq_running, flagVars, statusPVs, timeout_rbv, file_path, file_name, file_full_name, monitorPc, open_returned, supervisionVars>>

\* Wrapper._set_file_path of src/pmacFilterControlWrapper.py: the record takes
\* the value, the full name is combined only when connected
SetFilePath ==
    /\ \E path \in FilePaths :
        /\ file_path' = path
        /\ file_full_name' = IF connected
                             THEN CombineFilePathAndName(path, file_name, FALSE)
                             ELSE file_full_name
    /\ UNCHANGED <<zmq_running, flagVars, statusPVs, timeout_rbv, h5f, file_name, monitorPc, raised, open_returned, supervisionVars>>

\* Wrapper._set_file_name of src/pmacFilterControlWrapper.py
SetFileName ==
    /\ \E name \in FileNames :
        /\ file_name' = name
        /\ file_full_name' = IF connected
                             THEN CombineFilePathAndName(file_path, name, FALSE)
                             ELSE file_full_name
    /\ UNCHANGED <<zmq_running, flagVars, statusPVs, timeout_rbv, h5f, file_path, monitorPc, raised, open_returned, supervisionVars>>

\* ------------------------------------------------------------ specification
Next ==
    \/ ZmqConnect
    \/ ZmqFault
    \/ DeviceStatusReply
    \/ DeviceNoReply
    \/ \E kind \in {"other", "unparseable"} : DeviceOther(kind)
    \/ QueryStatus
    \/ MonitorCommandStream
    \/ OpenFile
    \/ CloseFile
    \/ SetTimeout

\* The supervision engine: links, device, poller, command-stream monitor with
\* the status handler, and the operations on the output file and the timeout.
Spec == Init /\ [][Next]_vars

\* The record callbacks, with the device answering or losing status requests.
OpsNext ==
    \/ ZmqConnect
    \/ DeviceStatusReply
    \/ DeviceNoReply
    \/ QueryStatus
    \/ MonitorCommandLoop
    \/ MonitorCommandStatus
    \/ OpenFile
    \/ CloseFile
    \/ SetTimeout
    \/ Reset
    \/ SetShutterPos

OpsSpec == Init /\ [][OpsNext]_vars

\* Supervision alone, with the scheduling of asyncio: a task that can run does
\* run, and a device that is asked again and again answers.  Besides status
\* replies the link delivers only payloads that are not JSON.
LiveNext ==
    \/ ZmqConnect
    \/ ZmqFault
    \/ DeviceStatusReply
    \/ DeviceNoReply
    \/ DeviceOther("unparseable")
    \/ QueryStatus
    \/ MonitorCommandLoop
    \/ MonitorCommandStatus
    \/ MonitorCommandUnparseable
    \/ MonitorCommandNone

LiveSpec ==
    /\ Init
    /\ [][LiveNext]_vars
    /\ WF_vars(QueryStatus)
    /\ WF_vars(MonitorCommandStream)
    /\ SF_vars(DeviceStatusReply)

\* The autosaved parameters: an operator changes them once the device has
\* answered, and the program is started again with the file it has written.
AutosaveNext ==
    \/ ZmqConnect
    \/ DeviceStatusReply
    \/ QueryStatus
    \/ MonitorCommandLoop
    \/ MonitorCommandStatus
    \/ SetShutterPos
    \/ SetPos
    \/ SetExtremeHighThreshold
    \/ SetHist
    \/ SetHistCaput
    \/ Restart

AutosaveSpec == Init /\ [][AutosaveNext]_vars

\* Mode, filter set, attenuation and the initial configuration, with an output
\* file that an operator opens.
ConfigNext ==
    \/ ZmqConnect
    \/ DeviceStatusReply
    \/ QueryStatus
    \/ MonitorCommandLoop
    \/ MonitorCommandStatus
    \/ OpenFile
    \/ SetMode
    \/ SetFilterSet
    \/ SetManualAttenuation
    \/ AttenuationUpdate
    \/ SendInitialConfig

ConfigSpec == Init /\ [][ConfigNext]_vars

\* The frame recorder of src/pmacFilterControlWrapper.py: status and frame
\* messages arrive in any order, an operator renames the output file, and the
\* recorder's close operation is called.
RecorderNext ==
    \/ MonitorResponsesStatus
    \/ MonitorResponsesFrame
    \/ RecorderCloseFile
    \/ SetFilePath
    \/ SetFileName

RecorderSpec == Init /\ [][RecorderNext]_vars

\* The event link and its monitor, with the supervision that lets an operator
\* open and close the output file, and a recorder whose writes return.
EventNext ==
    \/ ZmqConnect
    \/ DeviceStatusReply
    \/ QueryStatus
    \/ MonitorCommandLoop
    \/ MonitorCommandStatus
    \/ OpenFile
    \/ CloseFile
    \/ EventConnect
    \/ EventFault
    \/ DeviceEvent
    \/ MonitorEventStreamWrites

EventSpec == Init /\ [][EventNext]_vars

\* The event-stream monitor with a recorder whose writes may fail, on links
\* that stay up and a file that an operator opens.
FrameNext ==
    \/ ZmqConnect
    \/ DeviceStatusReply
    \/ QueryStatus
    \/ MonitorCommandLoop
    \/ MonitorCommandStatus
    \/ OpenFile
    \/ EventConnect
    \/ DeviceEvent
    \/ MonitorEventLoop
    \/ MonitorEventFrame
    \/ MonitorEventFrameRaises
    \/ MonitorEventOther
    \/ MonitorEventUnparseable

FrameSpec == Init /\ [][FrameNext]_vars

\* The pixel-count thresholds: an operator writes two of the five, before and
\* after the device has answered, and the program is started again with the
\* autosave file it has written.
ThresholdNext ==
    \/ ZmqConnect
    \/ DeviceStatusReply
    \/ QueryStatus
    \/ MonitorCommandLoop
    \/ MonitorCommandStatus
    \/ SetExtremeHighThreshold
    \/ SetLowerLowThreshold
    \/ Restart

ThresholdSpec == Init /\ [][ThresholdNext]_vars

\* Single shots: an operator selects MANUAL or SINGLESHOT mode and triggers a
\* shot, the device reports IDLE or a single-shot state, and a status request
\* may be lost.
SingleshotNext ==
    \/ ZmqConnect
    \/ DeviceStatusReply
    \/ DeviceNoReply
    \/ QueryStatus
    \/ MonitorCommandLoop
    \/ MonitorCommandStatusFrom(SingleshotStatusMsgs)
    \/ \E value \in SingleshotModes : SetModeTo(value)
    \/ StartSingleshot

SingleshotSpec == Init /\ [][SingleshotNext]_vars

\* Mode, filter set and filter positions on a link that may lose a status
\* request: an operator writes the records while connected and while not, and
\* opens the output file.
ModeNext ==
    \/ ZmqConnect
    \/ DeviceStatusReply
    \/ DeviceNoReply
    \/ QueryStatus
    \/ MonitorCommandLoop
    \/ MonitorCommandStatus
    \/ OpenFile
    \/ SetMode
    \/ SetFilterSet
    \/ SetPos

ModeSpec == Init /\ [][ModeNext]_vars

\* ------------------------------------------------------------------ claims
\* A step in which monitor_command_stream takes a status reply off the link.
StatusReceived ==
    /\ cmdPc = "get_response"
    /\ cmdQ # <<>>
    /\ Head(cmdQ) = "status"
    /\ cmdQ' = Tail(cmdQ)

\* A step of _query_status from the head of its loop.
PollStep == QueryStatus /\ AtLoopHead

\* C1 as stated: whenever the poller takes a poll step with a status request
\* outstanding (status_recv False), connected is False after the step.
C1_Original == [][(PollStep /\ ~status_recv) => ~connected']_vars

\* C1 as amended: whenever the poller takes a poll step with a status request
\* outstanding and the command link running, connected is False after the
\* step and the poller is in its disconnected wait loop.
C1_NoReplyDisconnects == [][(PollStep /\ zmq_running /\ ~status_recv) => (~connected' /\ pollPc' = "retry_sleep")]_vars

\* A status had been handled (so the wrapper was connected) and the poller
\* has since found its request unanswered.
C1_Witness == pollPc = "retry_sleep" /\ ~connected /\ ~status_recv /\ version = 1 /\ sent = <<>>

\* C2: a step that receives a status reply leaves connected and status_recv
\* True; the poller's next step from its wait loop then leaves the loop, and
\* its next poll step with the link running is an ordinary poll (it marks a
\* request outstanding and sends it).
C2_ReplyReconnects ==
    [][/\ StatusReceived => (connected' /\ status_recv')
       /\ (QueryStatus /\ pollPc = "retry_sleep" /\ status_recv) => pollPc' = "poll_sleep"
       /\ (PollStep /\ zmq_running /\ status_recv) => (sent' = <<StatusReq>> /\ ~status_recv' /\ pollPc' = "poll_sleep" /\ connected' = connected)]_vars

\* The poller has just left its wait loop after a reply reconnected the wrapper.
C2_Witness == pollPc = "poll_sleep" /\ connected /\ status_recv /\ sent = <<StatusReq>>

\* C4 as stated: every status request the poller sends is sent with no
\* earlier request outstanding (status_recv True before the step).
C4_Original == [][(QueryStatus /\ sent' = <<StatusReq>>) => status_recv]_vars

\* C4 as amended: a poll step sends a status request only with none
\* outstanding, and marks it outstanding; a status request sent while one is
\* outstanding is a resend of the disconnected wait loop.
C4_OneOutstandingOutsideRetry ==
    [][/\ (PollStep /\ sent' = <<StatusReq>>) => (status_recv /\ ~status_recv')
       /\ (QueryStatus /\ sent' = <<StatusReq>> /\ ~status_recv) => pollPc = "retry_sleep"]_vars

\* A resend with the earlier request still unanswered.
C4_Witness == pollPc = "retry_sleep" /\ sent = <<StatusReq>> /\ ~status_recv

\* C5 as stated: every step that changes connected is a step of the poller.
C5_Original == [][connected' # connected => QueryStatus]_vars

\* C5 as amended: connected goes from True to False only in a step of the
\* poller, and from False to True only in a step of the command-stream
\* monitor that receives a status reply; no other step changes it.
C5_FlagWriters ==
    [][/\ (connected /\ ~connected') => QueryStatus
       /\ (~connected /\ connected') => StatusReceived]_vars

\* connected has been set by the monitor and cleared again by the poller,
\* and a later reply is waiting to set it once more.
C5_Witness == ~connected /\ version = 1 /\ pollPc = "retry_sleep" /\ cmdQ # <<>> /\ Head(cmdQ) = "status"

\* C7: every step of the poller from its disconnected wait loop sends the
\* status request again (it goes out if the link is running), and the poller
\* stays in the loop unless a reply has arrived.
C7_RetryResends ==
    [][(QueryStatus /\ pollPc = "retry_sleep") =>
          /\ sent' = <<StatusReq>>
          /\ reqs' = (IF zmq_running THEN reqs + 1 ELSE reqs)
          /\ pollPc' = (IF status_recv THEN "poll_sleep" ELSE "retry_sleep")
          /\ connected' = connected]_vars

\* The original request and a resend are both on their way and the poller
\* is still waiting, disconnected.
C7_Witness == pollPc = "retry_sleep" /\ ~connected /\ ~status_recv /\ sent = <<StatusReq>> /\ reqs = 2

\* C8 as stated: no inbound payload ends a monitor loop.
C8_MonitorNeverEnds == cmdPc # "raised"

\* C9 as stated: after handling a status whose time since the last frame
\* exceeds the configured timeout, with at least one frame received, the
\* output file is closed.
C9_TimedOutStatusCloses == [][(StatusReceived /\ time_since_last_frame' > timeout_rbv /\ last_frame_received' >= 1) => ~h5f_file_open']_vars

\* A step of one of the record callbacks.
Operation == OpenFile \/ CloseFile \/ SetTimeout \/ Reset \/ SetShutterPos

\* C3 as stated: an operation invoked while connected is False sends nothing
\* and changes no readback, autosave entry or file state.
C3_DisconnectedNoOp == [][(Operation /\ ~connected) => (sent' = <<>> /\ UNCHANGED <<reqs, timeout_rbv, statusPVs, h5f_file_open, autosaveVars>>)]_vars

\* C6 as stated: if the command link stays running from some point on, the
\* wrapper is connected again and again.
C6_EventuallyConnected == <>[]zmq_running => []<>connected

\* What holds instead: with the link staying up, the wrapper is connected
\* again and again unless the command-stream monitor has ended.
RecoversUnlessMonitorEnded == <>[]zmq_running => ([]<>connected \/ <>(cmdPc = "raised"))

TimedOutStatusClosesQuietly == [][(MonitorResponsesStatus /\ time_since_last_frame' > timeout_rbv) => (h5f' = None /\ monitorPc' = monitorPc /\ raised' = raised)]_vars
\* A timed-out status message has closed an open file with frames in it.
TimedOutStatusClosedFile == h5f = None /\ time_since_last_frame > timeout_rbv /\ monitorPc.event_stream = "get_response" /\ file_full_name = <<InitialFilePath, InitialFileName, "time">>

\* C11: with a file open, a frame that arrives while FILE:FULL_NAME names a
\* different file is rejected: _open_file returns False, nothing is raised, the
\* open file and its datasets stay as they are; and the handle never goes from
\* one file to another without being closed in between.
C11_SecondOpenRejected == [][/\ (MonitorResponsesFrame /\ h5f # None /\ file_full_name # h5f.filename) => (open_returned' = "False" /\ h5f' = h5f /\ monitorPc' = monitorPc)
                             /\ (h5f # None /\ h5f' # None) => h5f'.filename = h5f.filename]_vars
C11_Witness == open_returned = "False" /\ h5f # None /\ h5f.adjustment # <<>> /\ file_full_name # h5f.filename /\ monitorPc.event_stream = "get_response"

\* The dataset after a write of the frame: long enough, other slots kept, new slots 0.
WrittenAndFilled(old, new, frame_number) ==
    /\ Len(new) >= frame_number + 1
    /\ \A i \in 1..Len(new) : i # frame_number + 1 => new[i] = (IF i <= Len(old) THEN old[i] ELSE 0)

\* C12: a frame write leaves both datasets at least frame_number + 1 long,
\* keeps every other slot that existed as it was, and every other slot that
\* comes into being, at creation or by growth, reads 0: so a slot that was
\* never written reads 0.
C12_WriteGrowsAndFills == [][(MonitorResponsesFrame /\ open_returned' = "True" /\ h5f' # None) => (\E data \in FrameMsgs : WrittenAndFilled(h5f.adjustment, h5f'.adjustment, data.frame_number) /\ WrittenAndFilled(h5f.attenuation, h5f'.attenuation, data.frame_number))]_vars
\* Frame 129 was written into datasets of 128 slots: slot 128 was never written.
C12_Witness == h5f # None /\ Len(h5f.adjustment) = 130 /\ h5f.adjustment[130] # 0 /\ h5f.adjustment[129] = 0 /\ h5f.attenuation[129] = 0 /\ h5f.adjustment[1] = 0

\* The file a frame is written to: the open one, or a new one.
WriteTarget == IF h5f = None THEN File(file_full_name) ELSE h5f

\* C13: writing a frame and then a frame with the same number and other values
\* leaves the later adjustment and the later attenuation in the slot, whatever
\* the slot held before.
C13_LastWriteWins == \A first \in FrameMsgs, later \in FrameMsgs : (first.frame_number = later.frame_number /\ first # later) => LET once == WriteToHdf5(WriteTarget, first).h5f
                                                                                                                                      twice == WriteToHdf5(once, later) IN
                                                                                                                                  /\ twice.exc = "none"
                                                                                                                                  /\ twice.h5f.adjustment[later.frame_number + 1] = later.adjustment
                                                                                                                                  /\ twice.h5f.attenuation[later.frame_number + 1] = later.attenuation
                                                                                                                                  /\ once.adjustment[first.frame_number + 1] = first.adjustment
                                                                                                                                  /\ once.attenuation[first.frame_number + 1] = first.attenuation
\* Frames 0 and 128 are in the file, with different values.
C13_Witness == h5f # None /\ Len(h5f.adjustment) = 129 /\ h5f.adjustment[1] = -1 /\ h5f.attenuation[1] = 3 /\ h5f.adjustment[129] = 1 /\ h5f.attenuation[129] = 4

\* C14: the two datasets of an open file have the same length, and the
\* equal-size assertion of a write to it passes.
C14_EqualLength == h5f # None => (Len(h5f.adjustment) = Len(h5f.attenuation) /\ \A data \in FrameMsgs : WriteToHdf5(h5f, data).exc = "none")
\* Both datasets have grown to 130 slots.
C14_Witness == h5f # None /\ Len(h5f.adjustment) = 130 /\ Len(h5f.attenuation) = 130 /\ h5f.attenuation[130] = 3

\* The length of a dataset before a write: 128 when the write creates it.
LengthBefore(dset) == IF dset = <<>> THEN DatasetSize ELSE Len(dset)
\* The dataset after a write of the frame: a frame below the length changes
\* only its slot, a frame at or above it makes the length frame_number + 1.
WrittenInPlaceOrGrown(old, new, frame_number) ==
    /\ Len(new) = (IF frame_number < LengthBefore(old) THEN LengthBefore(old) ELSE frame_number + 1)
    /\ frame_number < LengthBefore(old) => \A i \in 1..Len(new) : i # frame_number + 1 => new[i] = (IF old = <<>> THEN 0 ELSE old[i])

\* C15: the datasets of an open file never get shorter; a write of a frame
\* below the length changes only that slot and keeps the length, a write of
\* frame N at or above the length makes the length exactly N + 1.
C15_NeverShrinks == [][/\ (h5f # None /\ h5f' # None) => (Len(h5f'.adjustment) >= Len(h5f.adjustment) /\ Len(h5f'.attenuation) >= Len(h5f.attenuation))
                       /\ (MonitorResponsesFrame /\ open_returned' = "True" /\ h5f' # None) => (\E data \in FrameMsgs : WrittenInPlaceOrGrown(h5f.adjustment, h5f'.adjustment, data.frame_number) /\ WrittenInPlaceOrGrown(h5f.attenuation, h5f'.attenuation, data.frame_number))]_vars
\* Frame 0 was written after frame 129 had made the datasets 130 long.
C15_Witness == h5f # None /\ Len(h5f.adjustment) = 130 /\ h5f.adjustment[130] = -1 /\ h5f.adjustment[1] = 1 /\ h5f.attenuation[1] = 4

\* The state sink holds the fields of the status dictionary, the state code
\* wrapped into 0..15.
SinkHolds(status) ==
    /\ state = (IF status.state < 0 THEN status.state + 16 ELSE status.state)
    /\ version = status.version
    /\ process_duration = status.process_duration
    /\ process_period = status.process_period
    /\ last_frame_received = status.last_received_frame
    /\ last_frame_processed = status.last_processed_frame
    /\ time_since_last_frame = status.time_since_last_message
    /\ current_attenuation = status.current_attenuation

\* C16: handling a status message publishes state + 16 for a negative state
\* code and the state code itself otherwise: -1 is published as 15, 2 as 2.
C16_StateWrapped == [][StatusReceived => (\E status \in StatusMsgs : /\ state' = (IF status.state < 0 THEN status.state + 16 ELSE status.state)
                                                                       /\ (status.state = -1 => state' = 15)
                                                                       /\ (status.state = 2 => state' = 2)
                                                                       /\ last_frame_received' = status.last_received_frame
                                                                       /\ time_since_last_frame' = status.time_since_last_message)]_vars
C16_Witness == state = 15 /\ version = 1 /\ status_recv /\ connected /\ cmdPc = "get_response"

\* C17: a command-link message with a status key is handled (all its fields
\* are in the state sink after the step) and sets status_recv; a JSON object
\* without a status key changes neither the state sink nor status_recv.
C17_StatusForwarded == [][/\ (StatusReceived => (status_recv' /\ (\E status \in StatusMsgs : SinkHolds(status)')))
                          /\ (MonitorCommandOther => UNCHANGED <<statusPVs, status_recv>>)]_vars
C17_Witness == status_recv /\ version = 1 /\ last_frame_received = 2 /\ time_since_last_frame = 2 /\ cmdPc = "get_response" /\ cmdQ # <<>> /\ Head(cmdQ) = "other"

\* C19: the status handler runs with connected True: the step that handles a
\* status message leaves connected True, and the handler's guarded close of
\* the output file is carried out even when connected was False before the
\* message.
C19_HandlerRunsConnected == [][StatusReceived => (connected' /\ ((time_since_last_frame' > timeout_rbv /\ last_frame_received' > 1) => ~h5f_file_open'))]_vars
\* A timed-out status message arrived while disconnected and closed the file.
C19_Witness == connected /\ status_recv /\ ~h5f_file_open /\ file_open = 0 /\ file_close = 0 /\ time_since_last_frame > timeout_rbv /\ last_frame_received > 1 /\ pollPc = "retry_sleep"

\* C20: handling a status message is one step: at every task switch the state
\* sink holds the eight fields of one status message, or nothing yet.
C20_SinkOfOneStatus == \/ state = 0 /\ version = 0 /\ process_duration = 0 /\ process_period = 0 /\ last_frame_received = 0 /\ last_frame_processed = 0 /\ time_since_last_frame = 0 /\ current_attenuation = 0
                       \/ \E status \in StatusMsgs : SinkHolds(status)
\* A second, different status message has replaced the first.
C20_Witness == state = 2 /\ version = 1 /\ last_frame_received = 1 /\ time_since_last_frame = 4 /\ current_attenuation = 1 /\ pollPc = "poll_sleep" /\ sent = <<StatusReq>>

\* A step of monitor_event_stream that takes a frame message from the link.
FrameReceived ==
    /\ evPc = "get_response"
    /\ evQ # <<>>
    /\ Head(evQ).kind = "frame"
    /\ evQ' = Tail(evQ)

C21_Original == [][(QueryStatus /\ sent' = <<StatusReq>>) => zmq_running]_vars

\* C21: at the head of its loop the poller sends a status request only while
\* the command link is running, and with the link not running it only waits;
\* the only status requests handed to a link that is not running are the
\* resends of the wait-and-resend loop, which never reach the device.
C21_SendsOnlyWhileRunningAtLoopHead == [][/\ (PollStep /\ sent' = <<StatusReq>>) => zmq_running
                                          /\ (PollStep /\ ~zmq_running) => (sent' = <<>> /\ pollPc' = "link_sleep" /\ reqs' = reqs /\ UNCHANGED flagVars)
                                          /\ (QueryStatus /\ sent' = <<StatusReq>> /\ ~zmq_running) => (pollPc = "retry_sleep" /\ reqs' = reqs)]_vars
\* The poller waits with the link down and a request unanswered.
C21_Witness == pollPc = "link_sleep" /\ ~zmq_running /\ sent = <<>> /\ ~status_recv /\ connected

C30_ConnectedOnlyAfterReply == /\ (connected = FALSE /\ status_recv = TRUE /\ reqs = 0)
                               /\ [](connected => version = 1)
                               /\ [][(version = 0 /\ (OpenFile \/ CloseFile \/ SetTimeout)) => (sent' = <<>> /\ UNCHANGED <<h5f_file_open, timeout_rbv>>)]_vars
\* An operator has asked for a file before the first status reply.
C30_Witness == version = 0 /\ ~connected /\ file_open = 1 /\ ~h5f_file_open /\ cmdQ # <<>> /\ Head(cmdQ) = "status"

\* C26: a status message whose time since the last frame is at most the
\* timeout, or that reports no frame received, leaves the output file and
\* FILE:OPEN as they are.
C26_NoCloseWithoutTimeout == [][(StatusReceived /\ (time_since_last_frame' <= timeout_rbv \/ last_frame_received' = 0)) => UNCHANGED <<h5f_file_open, file_open>>]_vars
\* The file is open after a status message past the timeout with no frame.
C26_Witness == h5f_file_open /\ connected /\ status_recv /\ last_frame_received = 0 /\ time_since_last_frame > timeout_rbv /\ version = 1

\* C27: a step of the event-stream monitor hands a frame to the recorder only
\* with the output file open before and after the step, whatever the status
\* handler and the close commands did before it.
C27_WriteOnlyWhileOpen == [][(MonitorEventStream /\ frames_written' # <<>>) => (h5f_file_open /\ h5f_file_open')]_vars
\* A frame was written, and the file was closed after it with a frame waiting.
C27_Witness == frames_written # <<>> /\ ~h5f_file_open /\ evQ # <<>> /\ Head(evQ).kind = "frame" /\ evPc = "get_response" /\ file_open = 0

\* C28: whenever _open_file has returned True a file is open, and the monitor
\* of the event stream has not ended.
C28_OpenTrueMeansFileOpen == open_returned = "True" => (h5f # None /\ monitorPc.event_stream = "get_response")

\* Two autosave dictionaries with the same keys and, key by key, equal values.
SameEntries(a, b) ==
    /\ Len(a) = Len(b)
    /\ \A i \in 1..Len(a) : a[i][1] = b[i][1] /\ a[i][2] = b[i][2]

\* C22: the text write_autosave makes of the autosave dictionary, read back by
\* _get_autosave, gives the same keys with the same values; and a restart
\* finds in the file the dictionary that was written to it.
C22_AutosaveRoundTrip ==
    /\ SameEntries(GetAutosave(WriteAutosave(autosave_dict)), autosave_dict)
    /\ (autosave_file = WriteAutosave(autosave_dict) => SameEntries(GetAutosave(autosave_file), autosave_dict))
\* After a restart: the dictionary read from a file with a negative position,
\* a changed threshold, a histogram threshold and the filter set.
C22_Witness ==
    /\ version = 0
    /\ autosave_file # <<>>
    /\ autosave_dict = GetAutosave(autosave_file)
    /\ Get(autosave_dict, FilterInKey) = -5
    /\ Get(autosave_dict, ExtremeHighKey) = 7
    /\ Get(autosave_dict, "CLOSED") = 250
    /\ HasKey(autosave_dict, HistKey)
    /\ HasKey(autosave_dict, FilterSetKey)

\* The autosave file holds the text of the dictionary, which reads back as
\* the dictionary (C22).
FileEqualsDict(text, dict) == text = WriteAutosave(dict)

\* C23: after every accepted change of an autosaved parameter (a shutter
\* position, a filter position, a pixel-count threshold, a histogram
\* threshold) the autosave file holds what the autosave dictionary holds.
C23_ChangeRewritesFile == [][(\/ (SetShutterPos \/ SetPos \/ SetExtremeHighThreshold) /\ autosave_dict' # autosave_dict
                              \/ SetHistCaput) => FileEqualsDict(autosave_file', autosave_dict')]_vars
\* What holds of the setters that do not suspend, and of _set_hist when its
\* caput returns.
ChangeRewritesFileUnlessCaputFails == [][(\/ (SetShutterPos \/ SetPos \/ SetExtremeHighThreshold) /\ autosave_dict' # autosave_dict
                                          \/ SetHistWritten) => FileEqualsDict(autosave_file', autosave_dict')]_vars

\* C24: MODE written while connected sends one configure command, for the
\* mode, sets MODE_RBV to the new mode and leaves the output file closed and
\* FILE:OPEN at 0; for mode 0 it also sets ATTENUATION to 15.
C24_SetModeConnected == [][(SetMode /\ connected) => (/\ sent' = <<Configure("mode", mode')>>
                                                      /\ mode_rbv' = mode'
                                                      /\ ~h5f_file_open'
                                                      /\ file_open' = 0
                                                      /\ (mode' = 0 => attenuation' = MaxAttenuation))]_vars
\* MANUAL mode has been set, with an attenuation that was not 15 before.
C24_Witness == sent = <<Configure("mode", 0)>> /\ mode_rbv = 0 /\ connected /\ ~h5f_file_open /\ file_open = 0 /\ attenuation = MaxAttenuation /\ attenuation_update = <<MaxAttenuation>> /\ initPc = "wait_connected"

\* Whether the messages hold the shutter-closed-position command of the
\* initial configuration.
HasShutterConfig(msgs) == \E i \in 1..Len(msgs) : msgs[i] = Configure("shutter_closed_position", Get(autosave_dict, "CLOSED"))

\* C25: _send_initial_config sends nothing while it waits for the connection;
\* it sends in one step, taken with connected True and so after a status
\* reply, the shutter closed position and then the positions of the filter
\* set, and leaves ATTENUATION at 15; and it sends once.
C25_InitialConfigAfterConnect == [][/\ (SendInitialConfig /\ ~connected) => (sent' = <<>> /\ initPc' = initPc)
                                    /\ (initPc # initPc') => (/\ initPc = "wait_connected" /\ initPc' = "done"
                                                              /\ connected /\ version = 1
                                                              /\ Len(sent') >= 2
                                                              /\ sent'[1] = Configure("shutter_closed_position", Get(autosave_dict, "CLOSED"))
                                                              /\ sent'[2] = Configure("positions", filter_in)
                                                              /\ attenuation' = MaxAttenuation)
                                    /\ HasShutterConfig(sent') => (initPc = "wait_connected" /\ initPc' = "done")]_vars
\* The initial configuration has gone out with the device idle.
C25_Witness == initPc = "done" /\ connected /\ sent = <<Configure("shutter_closed_position", ShutterClosedDefault), Configure("positions", FilterInDefault), Configure("attenuation", MaxAttenuation)>> /\ attenuation = MaxAttenuation /\ HasKey(autosave_dict, FilterSetKey)

\* C31: a frame message taken from the event link with no output file open is
\* dropped: nothing is handed to the recorder, no file is opened, connected
\* and status_recv stay as they are, and the monitor goes on to its next
\* message.
C31_FrameDroppedWhileClosed == [][(MonitorEventStream /\ FrameReceived /\ ~h5f_file_open) => (/\ frames_written' = <<>>
                                                                                              /\ ~write_error'
                                                                                              /\ UNCHANGED <<fileVars, flagVars, recorderVars>>
                                                                                              /\ evPc' = NextEvPc)]_vars
\* Connected, no file open, the monitor waiting with the next frame in the queue.
C31_Witness == connected /\ version = 1 /\ ~h5f_file_open /\ file_open = 0 /\ frames_written = <<>> /\ ~write_error /\ evPc = "get_response" /\ event_running /\ evQ = <<[kind |-> "frame", frame_number |-> 1]>>

\* C32: a step of the monitor in which the write of a frame raises a
\* RuntimeError leaves the output file open and the monitor at the head of its
\* loop, so that it takes the next message; the monitor has never ended in a
\* state that reports such an error.
C32_WriteErrorKeepsMonitor == /\ [][(MonitorEventStream /\ write_error') => (/\ FrameReceived
                                                                             /\ h5f_file_open /\ h5f_file_open'
                                                                             /\ UNCHANGED <<fileVars, flagVars>>
                                                                             /\ evPc' = NextEvPc)]_vars
                              /\ [](write_error => evPc \in {"get_response", "link_sleep"})
\* A write has failed, the file is open and the next frame waits for the monitor.
C32_Witness == write_error /\ h5f_file_open /\ frames_written = <<[kind |-> "frame", frame_number |-> 0]>> /\ evPc = "get_response" /\ evQ # <<>> /\ Head(evQ).kind = "frame"

\* the step hands an attenuation command to the command link
AttenuationSent == \E i \in 1..Len(sent') : sent'[i] \in {Configure("attenuation", value) : value \in ManualAttenuations \cup {MaxAttenuation}}

\* C34: a step sends a manual-attenuation command only while connected with
\* STATE 0 (IDLE) and MODE_RBV 0 (MANUAL); a write of ATTENUATION, or its
\* dispatched update, in any other state or mode sends nothing and changes
\* nothing but the ATTENUATION record and the queue of its pending updates.
C34_AttenuationOnlyIdleManual == [][/\ AttenuationSent => (connected /\ state = 0 /\ mode_rbv = 0)
                                    /\ ((SetManualAttenuation \/ AttenuationUpdate) /\ ~(state = 0 /\ mode_rbv = 0)) => (sent' = <<>> /\ UNCHANGED <<zmq_running, cmdQ, reqs, flagVars, pollPc, cmdPc, statusPVs, timeout_rbv, fileVars, autosaveVars, recorderVars, eventVars, mode, mode_rbv, filter_set_rbv, pixel_count_thresholds, initPc, histPc, filter_in>>)]_vars

\* ATTENUATION was written in CONTINUOUS mode with the device ACTIVE, and
\* nothing was sent
C34_Witness == connected /\ status_recv /\ state = 2 /\ mode = 1 /\ mode_rbv = 1 /\ attenuation = 3 /\ attenuation_update = <<>> /\ sent = <<>>

\* C36: while connected, writing a pixel-count threshold with a value other
\* than the one it has (the value its record was restored to from the autosave
\* file, or the last value accepted) stores the value in that one threshold,
\* leaves the other four, and sends one configure command with all five.
C36_NewThresholdIsSent == [][\A threshold \in ThresholdValues : (SetExtremeHighThresholdTo(threshold) /\ connected /\ threshold # Get(autosave_dict, ExtremeHighKey)) => (/\ pixel_count_thresholds' = [pixel_count_thresholds EXCEPT !.high3 = threshold]
                                                                                                                                                                     /\ sent' = SetThresholdsMsgs(pixel_count_thresholds'))]_vars

\* What holds of the two setters, with Wrapper.pixel_count_thresholds as the
\* value a threshold has: while connected a write of that value sends nothing
\* and changes nothing, and a write of another value changes that one entry
\* and sends the five in one command.
ThresholdComparedWithDictionary == [][/\ \A threshold \in ThresholdValues : (SetExtremeHighThresholdTo(threshold) /\ connected) => (IF threshold = pixel_count_thresholds.high3
                                                                                                                                     THEN sent' = <<>> /\ UNCHANGED <<pixel_count_thresholds, autosaveVars>>
                                                                                                                                     ELSE /\ pixel_count_thresholds' = [pixel_count_thresholds EXCEPT !.high3 = threshold]
                                                                                                                                          /\ sent' = SetThresholdsMsgs(pixel_count_thresholds')
                                                                                                                                          /\ Get(autosave_dict', ExtremeHighKey) = threshold)
                                      /\ \A threshold \in LowerLowValues : (SetLowerLowThresholdTo(threshold) /\ connected) => (IF threshold = pixel_count_thresholds.low1
                                                                                                                               THEN sent' = <<>> /\ UNCHANGED <<pixel_count_thresholds, autosaveVars>>
                                                                                                                               ELSE /\ pixel_count_thresholds' = [pixel_count_thresholds EXCEPT !.low1 = threshold]
                                                                                                                                    /\ sent' = SetThresholdsMsgs(pixel_count_thresholds')
                                                                                                                                    /\ Get(autosave_dict', LowerLowKey) = threshold)]_vars

\* Both thresholds have been changed, the lower low one last.
ThresholdsBothChanged == connected /\ pixel_count_thresholds = [PixelCountDefaults EXCEPT !.high3 = 7, !.low1 = 7] /\ sent = SetThresholdsMsgs(pixel_count_thresholds) /\ Get(autosave_dict, LowerLowKey) = 7

\* C35: a step sends a singleshot command only when the trigger value written
\* is 1, the program is connected, MODE_RBV is 2 (SINGLESHOT) and STATE is 3
\* (SINGLESHOT_WAITING) or 4 (SINGLESHOT_COMPLETE); a trigger in any other
\* case sends nothing.
C35_SingleshotOnlyWhenArmed == [][/\ (\E i \in 1..Len(sent') : sent'[i] = SingleshotCmd) => (connected /\ mode_rbv = 2 /\ state \in {3, 4} /\ StartSingleshotWith(1))
                                  /\ \A trigger \in Triggers : (StartSingleshotWith(trigger) /\ ~(trigger = 1 /\ mode_rbv = 2 /\ state \in {3, 4})) => sent' = <<>>]_vars

\* a shot has been triggered in SINGLESHOT mode with the device waiting
C35_Witness == sent = <<SingleshotCmd>> /\ connected /\ mode_rbv = 2 /\ state = 3

\* the in positions _set_filter_set sends for a filter set
InPositions(filter_set_num) == IF filter_set_num = 0 THEN filter_in ELSE FilterInDefault

\* C33: selecting a filter set while connected sends the positions of that
\* set, sets FILTER_SET_RBV to it, stores it in the autosave dictionary, and
\* leaves the controller in MANUAL mode: MODE and MODE_RBV are 0 afterwards,
\* and when the mode was not MANUAL before, the mode command has been sent
\* and the output file is closed.
C33_FilterSetLeavesManual == [][(SetFilterSet /\ connected) => (/\ \E filter_set_num \in FilterSets : (/\ sent'[1] = Configure("positions", InPositions(filter_set_num))
                                                                                                      /\ filter_set_rbv' = filter_set_num
                                                                                                      /\ Get(autosave_dict', FilterSetKey) = filter_set_num)
                                                                /\ mode' = 0
                                                                /\ mode_rbv' = 0
                                                                /\ (mode_rbv # 0 => (sent'[2] = Configure("mode", 0) /\ ~h5f_file_open' /\ file_open' = 0)))]_vars

\* What holds, with the MODE record in the place of the controller's mode:
\* MODE above 0 gives the mode command, MODE_RBV 0 and a closed file; with
\* MODE 0 the mode readback stays as it is and only the attenuation is
\* requested, which is sent in IDLE state with MODE_RBV 0.
FilterSetTestsModeRecord == [][(SetFilterSet /\ connected) => (/\ \E filter_set_num \in FilterSets : (/\ sent'[1] = Configure("positions", InPositions(filter_set_num))
                                                                                                     /\ filter_set_rbv' = filter_set_num
                                                                                                     /\ Get(autosave_dict', FilterSetKey) = filter_set_num
                                                                                                     /\ FileEqualsDict(autosave_file', autosave_dict'))
                                                               /\ mode' = 0
                                                               /\ IF mode > 0
                                                                  THEN sent'[2] = Configure("mode", 0) /\ mode_rbv' = 0 /\ ~h5f_file_open' /\ file_open' = 0 /\ attenuation' = MaxAttenuation
                                                                  ELSE /\ UNCHANGED <<mode_rbv, h5f_file_open, file_open, attenuation>>
                                                                       /\ Tail(sent') = (IF state = 0 /\ mode_rbv = 0 THEN <<Configure("attenuation", MaxAttenuation)>> ELSE <<>>))]_vars

\* A filter set has been selected with MODE 0 and MODE_RBV 1: the controller
\* is left in CONTINUOUS mode.
FilterSetLeftContinuous == connected /\ mode = 0 /\ mode_rbv = 1 /\ filter_set_rbv = 1 /\ sent = <<Configure("positions", FilterInDefault)>> /\ Get(autosave_dict, FilterSetKey) = 1

\* C37: a filter position written while connected is stored in the autosave
\* dictionary and the autosave file is rewritten from it; the positions are
\* sent to the device when the position is one of the selected filter set,
\* and nothing is sent when it is not.
C37_PositionResentIfSelected == [][(SetPos /\ connected) => (/\ Get(autosave_dict', FilterInKey) = filter_in'
                                                             /\ FileEqualsDict(autosave_file', autosave_dict')
                                                             /\ IF filter_set_rbv = 0
                                                                THEN sent' # <<>> /\ sent'[1] = Configure("positions", filter_in') /\ filter_set_rbv' = 0
                                                                ELSE sent' = <<>> /\ UNCHANGED <<filter_set_rbv, mode, mode_rbv, fileVars>>)]_vars

\* a position of the first filter set has been written with the second set
\* selected
C37_Witness == connected /\ filter_set_rbv = 1 /\ filter_in = -5 /\ Get(autosave_dict, FilterInKey) = -5 /\ Get(autosave_dict, FilterSetKey) = 1 /\ autosave_file = WriteAutosave(autosave_dict) /\ sent = <<>>

====
